---- MODULE Spec2Model ----
(***************************************************************************)
(* Model of jenkins_jobs/modules/publishers.py: the publisher handlers,    *)
(* the shared builders they use and Publishers.gen_xml, which dispatches   *)
(* an ordered list of publisher actions into the 'publishers' element.     *)
(*                                                                         *)
(* Python values are tagged records [t, v]; a dict is a function from its  *)
(* keys, a list is a sequence.  An ElementTree element is a record         *)
(* [tag, attrib, text, children].  A handler is an operator taking the     *)
(* parent element and the config and returning [parent, err]: the parent   *)
(* as the call left it, and the exception raised, if any.                  *)
(***************************************************************************)
EXTENDS Integers, Sequences, FiniteSets, TLC

(* ------------------------------------------------------------------ *)
(* Bounds of the explored inputs.                                      *)
(* ------------------------------------------------------------------ *)
\* The longest list of publisher actions of a job.
MaxActions == 2
\* The longest list nested in a config (project definitions, files, types,
\* thresholds) built from the sample entries below.
MaxList == 2

(* ------------------------------------------------------------------ *)
(* Python values.                                                      *)
(* ------------------------------------------------------------------ *)
S(x) == [t |-> "str", v |-> x]
B(x) == [t |-> "bool", v |-> x]
I(x) == [t |-> "int", v |-> x]
None == [t |-> "none", v |-> 0]

EmptyDict == [k \in {} |-> None]

Has(d, k) == k \in DOMAIN d

Get(d, k, default) == IF k \in DOMAIN d THEN d[k] ELSE default

\* Python truth value of a scalar, as tested by `if x:`.
Truthy(x) ==
    CASE x.t = "bool" -> x.v
      [] x.t = "str" -> x.v # ""
      [] x.t = "int" -> x.v # 0
      [] x.t = "none" -> FALSE

\* str(x)
PyStr(x) ==
    CASE x.t = "str" -> x.v
      [] x.t = "bool" -> (IF x.v THEN "True" ELSE "False")
      [] x.t = "int" -> ToString(x.v)
      [] x.t = "none" -> "None"

\* s.lower(), on the strings that reach it: every other string of the
\* explored inputs is lower case already.
Lower(s) ==
    CASE s = "True" -> "true"
      [] s = "False" -> "false"
      [] OTHER -> s

\* str(x).lower(), the module's idiom for boolean text.
StrLower(x) == S(Lower(PyStr(x)))

\* The literal 'true' / 'false' chosen by an `if cond: ... else: ...`.
BoolText(cond) == IF cond THEN S("true") ELSE S("false")

(* ------------------------------------------------------------------ *)
(* ElementTree.                                                        *)
(* ------------------------------------------------------------------ *)
Element(tag) ==
    [tag |-> tag, attrib |-> EmptyDict, text |-> None, children |-> <<>>]

\* An element with text: XML.SubElement(p, tag).text = value
Text(tag, value) == [Element(tag) EXCEPT !.text = value]

\* An element with the given children, in order.
Node(tag, children) == [Element(tag) EXCEPT !.children = children]

\* An element with attributes: XML.SubElement(p, tag, {...})
WithAttrib(e, attrib) == [e EXCEPT !.attrib = attrib]

\* XML.SubElement(parent, ...): the new element becomes the last child.
SubElement(parent, child) ==
    [parent EXCEPT !.children = Append(@, child)]

(* ------------------------------------------------------------------ *)
(* Outcomes of a call.                                                 *)
(* ------------------------------------------------------------------ *)
NoError == [kind |-> "none", msg |-> ""]

\* The call returned; parent is the parent element as it left it.
Ok(parent) == [parent |-> parent, err |-> NoError]

\* The call raised; parent is the parent element at that moment.
Raise(parent, kind, msg) ==
    [parent |-> parent, err |-> [kind |-> kind, msg |-> msg]]

\* data[key] on a dict without the key.
KeyError(parent, key) == Raise(parent, "KeyError", key)

(* ------------------------------------------------------------------ *)
(* Handlers.                                                           *)
(* ------------------------------------------------------------------ *)

\* Mutant: a missing 'artifacts' is defaulted to the empty string.
archive_defaulting(xml_parent, data) ==
    Ok(SubElement(xml_parent,
        Node("hudson.tasks.ArtifactArchiver",
            <<Text("artifacts", Get(data, "artifacts", S("")))>>
            \o (IF Has(data, "excludes")
                THEN <<Text("excludes", data["excludes"])>> ELSE <<>>)
            \o <<Text("latestOnly",
                      BoolText(Truthy(Get(data, "latest_only",
                                          B(FALSE)))))>>)))

\* def archive(parser, xml_parent, data)
archive(xml_parent, data) ==
    LET tag == "hudson.tasks.ArtifactArchiver"
        excludes == IF Has(data, "excludes")
                    THEN <<Text("excludes", data["excludes"])>> ELSE <<>>
        latest_only == Get(data, "latest_only", B(FALSE))
    IN  IF ~Has(data, "artifacts")
        THEN KeyError(SubElement(xml_parent,
                 Node(tag, <<Element("artifacts")>>)), "artifacts")
        ELSE Ok(SubElement(xml_parent,
                 Node(tag, <<Text("artifacts", data["artifacts"])>>
                           \o excludes
                           \o <<Text("latestOnly",
                                     BoolText(Truthy(latest_only)))>>)))

\* def deploy(parser, xml_parent, data)
deploy(xml_parent, data) ==
    LET tag == "org.jenkinsci.plugins.artifactdeployer.ArtifactDeployerPublisher"
        etag == "org.jenkinsci.plugins.artifactdeployer.ArtifactDeployerEntry"
        Built(entry) == SubElement(xml_parent,
                            Node(tag, <<Node("entries", <<Node(etag, entry)>>)>>))
    IN  IF ~Has(data, "artifacts")
        THEN KeyError(Built(<<Element("includes")>>), "artifacts")
        ELSE IF ~Has(data, "remote")
        THEN KeyError(Built(<<Text("includes", data["artifacts"]),
                              Element("remote")>>), "remote")
        ELSE Ok(Built(<<Text("includes", data["artifacts"]),
                        Text("remote", data["remote"])>>))

\* The inner 'configs' element of one project definition
\* (trigger_parameterized_builds, the body of the loop up to 'projects').
TriggerParams(project_def) ==
    LET p == "hudson.plugins.parameterizedtrigger."
        predefined ==
            IF Has(project_def, "predefined-parameters")
            THEN <<Node(p \o "PredefinedBuildParameters",
                        <<Text("properties",
                               project_def["predefined-parameters"])>>)>>
            ELSE <<>>
        revision ==
            IF Has(project_def, "git-revision")
               /\ Truthy(project_def["git-revision"])
            THEN <<Node("hudson.plugins.git.GitRevisionBuildParameters",
                        <<Text("combineQueuedCommits", S("false"))>>)>>
            ELSE <<>>
        propfile ==
            IF Has(project_def, "property-file")
               /\ Truthy(project_def["property-file"])
            THEN <<Node(p \o "FileBuildParameters",
                        <<Text("propertiesFile",
                               project_def["property-file"])>>)>>
            ELSE <<>>
    IN  IF Has(project_def, "predefined-parameters")
           \/ Has(project_def, "git-revision")
           \/ Has(project_def, "property-file")
        THEN Node("configs", predefined \o revision \o propfile)
        ELSE WithAttrib(Element("configs"),
                        "class" :> S("java.util.Collections$EmptyList"))

\* Mutant: each BuildTriggerConfig is inserted before the earlier ones.
RECURSIVE TriggerConfigs_prepending(_, _, _)
TriggerConfigs_prepending(data, k, done) ==
    IF k > Len(data) THEN [children |-> done, err |-> NoError]
    ELSE LET project_def == data[k]
             tag == "hudson.plugins.parameterizedtrigger.BuildTriggerConfig"
             tconfigs == TriggerParams(project_def)
         IN  IF ~Has(project_def, "project")
             THEN [children |-> <<Node(tag, <<tconfigs,
                                              Element("projects")>>)>>
                                \o done,
                   err |-> [kind |-> "KeyError", msg |-> "project"]]
             ELSE TriggerConfigs_prepending(data, k + 1,
                      <<Node(tag, <<tconfigs,
                          Text("projects", project_def["project"]),
                          Text("condition",
                               Get(project_def, "condition", S("ALWAYS"))),
                          Text("triggerWithNoParameters", S("false"))>>)>>
                      \o done)

\* The loop of trigger_parameterized_builds over data[k..]: the
\* BuildTriggerConfig elements appended to 'configs', and the exception
\* that ended the loop, if any.
RECURSIVE TriggerConfigs(_, _, _)
TriggerConfigs(data, k, done) ==
    IF k > Len(data) THEN [children |-> done, err |-> NoError]
    ELSE LET project_def == data[k]
             tag == "hudson.plugins.parameterizedtrigger.BuildTriggerConfig"
             tconfigs == TriggerParams(project_def)
         IN  IF ~Has(project_def, "project")
             THEN [children |-> Append(done,
                       Node(tag, <<tconfigs, Element("projects")>>)),
                   err |-> [kind |-> "KeyError", msg |-> "project"]]
             ELSE TriggerConfigs(data, k + 1, Append(done,
                      Node(tag, <<tconfigs,
                          Text("projects", project_def["project"]),
                          Text("condition",
                               Get(project_def, "condition", S("ALWAYS"))),
                          Text("triggerWithNoParameters", S("false"))>>)))

\* def trigger_parameterized_builds(parser, xml_parent, data)
trigger_parameterized_builds(xml_parent, data) ==
    LET tag == "hudson.plugins.parameterizedtrigger.BuildTrigger"
        loop == TriggerConfigs(data, 1, <<>>)
    IN  [parent |-> SubElement(xml_parent,
                        Node(tag, <<Node("configs", loop.children)>>)),
         err |-> loop.err]

\* The table `thresholds` of trigger.
TriggerThresholds ==
    [SUCCESS |-> [ordinal |-> "0", color |-> "BLUE"],
     UNSTABLE |-> [ordinal |-> "1", color |-> "YELLOW"],
     FAILURE |-> [ordinal |-> "2", color |-> "RED"]]

\* def trigger(parser, xml_parent, data)
\* The raise statement evaluates threshold.keys() on the string
\* `threshold` (not on the table `thresholds`), so what propagates is the
\* AttributeError of that evaluation.
trigger(xml_parent, data) ==
    LET tag == "hudson.tasks.BuildTrigger"
        threshold == Get(data, "threshold", S("SUCCESS"))
    IN  IF ~Has(data, "project")
        THEN KeyError(SubElement(xml_parent,
                 Node(tag, <<Element("childProjects")>>)), "project")
        ELSE IF threshold.v \notin DOMAIN TriggerThresholds
        THEN Raise(SubElement(xml_parent,
                 Node(tag, <<Text("childProjects", data["project"]),
                             Element("threshold")>>)),
                 "AttributeError",
                 "'str' object has no attribute 'keys'")
        ELSE Ok(SubElement(xml_parent,
                 Node(tag, <<Text("childProjects", data["project"]),
                     Node("threshold",
                       <<Text("name", threshold),
                         Text("ordinal",
                              S(TriggerThresholds[threshold.v].ordinal)),
                         Text("color",
                              S(TriggerThresholds[threshold.v].color))>>)>>)))

\* One healthyTarget / unhealthyTarget / failingTarget of coverage.
CoverageTarget(tag, conditional, line, method) ==
    LET metric == "hudson.plugins.cobertura.targets.CoverageMetric"
        Entry(name, value) ==
            Node("entry", <<Text(metric, S(name)), Text("int", S(value))>>)
    IN  Node(tag, <<WithAttrib(
            Node("targets", <<Entry("CONDITIONAL", conditional),
                              Entry("LINE", line),
                              Entry("METHOD", method)>>),
            ("class" :> S("enum-map")) @@ ("enum-type" :> S(metric)))>>)

\* def coverage(parser, xml_parent, data)
coverage(xml_parent, data) ==
    Ok(SubElement(xml_parent,
        Node("hudson.plugins.cobertura.CoberturaPublisher",
            <<Text("coberturaReportFile", S("**/coverage.xml")),
              Text("onlyStable", S("false")),
              CoverageTarget("healthyTarget", "70", "80", "80"),
              CoverageTarget("unhealthyTarget", "0", "0", "0"),
              CoverageTarget("failingTarget", "0", "0", "0"),
              Text("sourceEncoding", S("ASCII"))>>)))

\* Mutant: 'excludes' and 'removePrefix' are emitted only when configured.
base_publish_over_omitting(xml_parent, data, console_prefix, plugin_tag, publisher_tag, transferset_tag, reference_plugin_tag) ==
    LET Optional(tag, key) ==
            IF Has(data, key) THEN <<Text(tag, data[key])>> ELSE <<>>
    IN  IF ~Has(data, "site") THEN KeyError(xml_parent, "site")
        ELSE IF ~Has(data, "target") THEN KeyError(xml_parent, "target")
        ELSE IF ~Has(data, "source") THEN KeyError(xml_parent, "source")
        ELSE Ok(SubElement(xml_parent,
          Node(plugin_tag,
            <<Text("consolePrefix", S(console_prefix)),
              Node("delegate",
                <<Node("publishers",
                    <<Node(publisher_tag,
                        <<Text("configName", data["site"]),
                          Text("verbose", S("true")),
                          Node("transfers",
                            <<Node(transferset_tag,
                                <<Text("remoteDirectory", data["target"]),
                                  Text("sourceFiles", data["source"])>>
                                \o Optional("excludes", "excludes")
                                \o Optional("removePrefix", "remove-prefix")
                                \o <<Text("remoteDirectorySDF", S("false")),
                                     Text("flatten", S("false")),
                                     Text("cleanRemote", S("false"))>>)>>),
                          Text("useWorkspaceInPromotion", S("false")),
                          Text("usePromotionTimestamp", S("false"))>>)>>),
                  Text("continueOnError", S("false")),
                  Text("failOnError", S("false")),
                  Text("alwaysPublishFromMaster", S("false")),
                  WithAttrib(Element("hostConfigurationAccess"),
                      ("class" :> S(reference_plugin_tag))
                      @@ ("reference" :> S("../..")))>>)>>)))

\* def base_publish_over(xml_parent, data, console_prefix, plugin_tag,
\*                       publisher_tag, transferset_tag, reference_plugin_tag)
\* Returns (outer, transfersset) in the source; here the parent, with
\* outer as its last child and the transfer element at TransferNode below.
base_publish_over(xml_parent, data, console_prefix, plugin_tag, publisher_tag, transferset_tag, reference_plugin_tag) ==
    LET Outer(inner, rest) ==
            SubElement(xml_parent,
                Node(plugin_tag,
                    <<Text("consolePrefix", S(console_prefix)),
                      Node("delegate",
                          <<Node("publishers",
                                <<Node(publisher_tag, inner)>>)>> \o rest)>>))
        Inner(transfer) ==
            <<Text("configName", data["site"]),
              Text("verbose", S("true")),
              Node("transfers", <<Node(transferset_tag, transfer)>>)>>
    IN  IF ~Has(data, "site")
        THEN KeyError(Outer(<<Element("configName")>>, <<>>), "site")
        ELSE IF ~Has(data, "target")
        THEN KeyError(Outer(Inner(<<Element("remoteDirectory")>>), <<>>),
                      "target")
        ELSE IF ~Has(data, "source")
        THEN KeyError(Outer(Inner(
                 <<Text("remoteDirectory", data["target"]),
                   Element("sourceFiles")>>), <<>>), "source")
        ELSE Ok(Outer(
                 Inner(<<Text("remoteDirectory", data["target"]),
                         Text("sourceFiles", data["source"]),
                         Text("excludes", Get(data, "excludes", S(""))),
                         Text("removePrefix",
                              Get(data, "remove-prefix", S(""))),
                         Text("remoteDirectorySDF", S("false")),
                         Text("flatten", S("false")),
                         Text("cleanRemote", S("false"))>>)
                 \o <<Text("useWorkspaceInPromotion", S("false")),
                      Text("usePromotionTimestamp", S("false"))>>,
                 <<Text("continueOnError", S("false")),
                   Text("failOnError", S("false")),
                   Text("alwaysPublishFromMaster", S("false")),
                   WithAttrib(Element("hostConfigurationAccess"),
                       ("class" :> S(reference_plugin_tag))
                       @@ ("reference" :> S("../..")))>>))

\* The element base_publish_over returns as `transfersset`, reached from
\* `outer`: delegate / publishers / publisher / transfers / transfer.
TransferNode(outer) ==
    outer.children[2].children[1].children[1].children[3].children[1]

\* Mutant: asciiMode is not appended to the transfer element.
ftp_without_ascii_mode(xml_parent, data) ==
    base_publish_over(xml_parent, data, "FTP: ",
        "jenkins.plugins.publish__over__ftp.BapFtpPublisherPlugin",
        "jenkins.plugins.publish__over__ftp.BapFtpPublisher",
        "jenkins.plugins.publish__over__ftp.BapFtpTransfer",
        "jenkins.plugins.publish_over_ftp.BapFtpPublisherPlugin")

\* def ftp(parser, xml_parent, data)
ftp(xml_parent, data) ==
    LET r == base_publish_over(xml_parent, data, "FTP: ",
                 "jenkins.plugins.publish__over__ftp.BapFtpPublisherPlugin",
                 "jenkins.plugins.publish__over__ftp.BapFtpPublisher",
                 "jenkins.plugins.publish__over__ftp.BapFtpTransfer",
                 "jenkins.plugins.publish_over_ftp.BapFtpPublisherPlugin")
        last == Len(r.parent.children)
    IN  IF r.err # NoError THEN r
        ELSE Ok([r.parent EXCEPT
                 !.children[last].children[2].children[1].children[1]
                  .children[3].children[1] =
                     SubElement(@, Text("asciiMode", S("false")))])

\* def cifs(parser, xml_parent, data)
cifs(xml_parent, data) ==
    LET r == base_publish_over(xml_parent, data, "CIFS: ",
                 "jenkins.plugins.publish__over__cifs.CifsPublisherPlugin",
                 "jenkins.plugins.publish__over__cifs.CifsPublisher",
                 "jenkins.plugins.publish__over__cifs.CifsTransfer",
                 "jenkins.plugins.publish_over_cifs.CifsPublisherPlugin")
    IN  [parent |-> r.parent, err |-> r.err]

\* Mutant: keepLongStdio is written as 'false'.
junit_short_stdio(xml_parent, data) ==
    LET tag == "hudson.tasks.junit.JUnitResultArchiver"
    IN  IF ~Has(data, "results")
        THEN KeyError(SubElement(xml_parent,
                 Node(tag, <<Element("testResults")>>)), "results")
        ELSE Ok(SubElement(xml_parent,
                 Node(tag, <<Text("testResults", data["results"]),
                             Text("keepLongStdio", S("false")),
                             Element("testDataPublishers")>>)))

\* def junit(parser, xml_parent, data)
junit(xml_parent, data) ==
    LET tag == "hudson.tasks.junit.JUnitResultArchiver"
    IN  IF ~Has(data, "results")
        THEN KeyError(SubElement(xml_parent,
                 Node(tag, <<Element("testResults")>>)), "results")
        ELSE Ok(SubElement(xml_parent,
                 Node(tag, <<Text("testResults", data["results"]),
                             Text("keepLongStdio", S("true")),
                             Element("testDataPublishers")>>)))

\* A dict whose iteration order matters to the code (it takes keys()[0],
\* values()[0] or iterates items()) is a sequence of [k, v] pairs with
\* distinct keys, in the order the interpreter iterates it.
OKeys(od) == [n \in 1..Len(od) |-> od[n].k]

OHas(od, key) == \E n \in 1..Len(od) : od[n].k = key

\* The table types_to_plugin_types of xunit.
types_to_plugin_types ==
    [aunit |-> "AUnitJunitHudsonTestType",
     boosttest |-> "AUnitJunitHudsonTestType",
     checktype |-> "CheckType",
     cpptest |-> "CppTestJunitHudsonTestType",
     cppunit |-> "CppUnitJunitHudsonTestType",
     fpcunit |-> "FPCUnitJunitHudsonTestType",
     junit |-> "JUnitType",
     mstest |-> "MSTestJunitHudsonTestType",
     nunit |-> "NUnitJunitHudsonTestType",
     phpunit |-> "PHPUnitJunitHudsonTestType",
     tusar |-> "TUSARJunitHudsonTestType",
     unittest |-> "UnitTestJunitHudsonTestType",
     valgrind |-> "ValgrindJunitHudsonTestType"]

implemented_types == DOMAIN types_to_plugin_types

\* Mutant: the first unimplemented name ends the loop.
RECURSIVE supported_types_stopping(_)
supported_types_stopping(types) ==
    IF types = <<>> THEN <<>>
    ELSE IF OKeys(Head(types))[1] \notin implemented_types
         THEN <<>>
         ELSE <<Head(types)>> \o supported_types_stopping(Tail(types))

\* xunit, first loop: the configured types whose name is implemented.
RECURSIVE supported_types(_)
supported_types(types) ==
    IF types = <<>> THEN <<>>
    ELSE (IF OKeys(Head(types))[1] \notin implemented_types
          THEN <<>> ELSE <<Head(types)>>)
         \o supported_types(Tail(types))

\* xunit, second loop: one 'types' element per supported type.
XunitTypes(supported) ==
    [n \in 1..Len(supported) |->
        LET framework_name == OKeys(supported[n])[1]
            cfg == supported[n][1].v
        IN  Node("types",
              <<Node(types_to_plugin_types[framework_name],
                  <<Text("pattern", Get(cfg, "pattern", S(""))),
                    Text("failIfNotNew",
                         StrLower(Get(cfg, "requireupdate", S("true")))),
                    Text("deleteOutputFiles",
                         StrLower(Get(cfg, "deleteoutput", S("true")))),
                    Text("stopProcessingIfError",
                         StrLower(Get(cfg, "stoponerror", S("true"))))>>)>>)]

\* s.title(), on the keys of a threshold entry.
Title(s) ==
    CASE s = "failed" -> "Failed"
      [] s = "skipped" -> "Skipped"
      [] s = "passed" -> "Passed"
      [] OTHER -> s

\* threshold_name.lower().replace('new', 'New')
ThresholdName(s) ==
    CASE s = "unstablenew" -> "unstableNew"
      [] s = "failurenew" -> "failureNew"
      [] OTHER -> Lower(s)

\* Mutant: every block carries all four threshold names, 0 where the
\* entry gives none.
RECURSIVE XunitThresholds_all_fields(_)
XunitThresholds_all_fields(thresholds) ==
    IF thresholds = <<>> THEN <<>>
    ELSE LET t == Head(thresholds)
             elname == "org.jenkinsci.plugins.xunit.threshold."
                       \o Title(OKeys(t)[1]) \o "Threshold"
             items == t[1].v
             names == <<"unstable", "unstablenew", "failure", "failurenew">>
             Value(name) ==
                 IF OHas(items, name)
                 THEN items[CHOOSE n \in 1..Len(items) : items[n].k = name].v
                 ELSE I(0)
             el == Node(elname,
                     [n \in 1..4 |->
                         Text(ThresholdName(names[n]) \o "Threshold",
                              Value(names[n]))])
         IN  (IF ~(OHas(t, "failed") \/ OHas(t, "skipped"))
              THEN <<>> ELSE <<el>>)
             \o XunitThresholds_all_fields(Tail(thresholds))

\* Mutant: an entry that is neither 'failed' nor 'skipped' gets a block
\* like any other.
RECURSIVE XunitThresholds_keeping(_)
XunitThresholds_keeping(thresholds) ==
    IF thresholds = <<>> THEN <<>>
    ELSE LET t == Head(thresholds)
             elname == "org.jenkinsci.plugins.xunit.threshold."
                       \o Title(OKeys(t)[1]) \o "Threshold"
             items == t[1].v
             el == Node(elname,
                     [n \in 1..Len(items) |->
                         Text(ThresholdName(items[n].k) \o "Threshold",
                              items[n].v)])
         IN  <<el>> \o XunitThresholds_keeping(Tail(thresholds))

\* xunit, the loop over data['thresholds']: the children of 'thresholds'.
RECURSIVE XunitThresholds(_)
XunitThresholds(thresholds) ==
    IF thresholds = <<>> THEN <<>>
    ELSE LET t == Head(thresholds)
             elname == "org.jenkinsci.plugins.xunit.threshold."
                       \o Title(OKeys(t)[1]) \o "Threshold"
             items == t[1].v
             el == Node(elname,
                     [n \in 1..Len(items) |->
                         Text(ThresholdName(items[n].k) \o "Threshold",
                              items[n].v)])
         IN  (IF ~(OHas(t, "failed") \/ OHas(t, "skipped"))
              THEN <<>> ELSE <<el>>)
             \o XunitThresholds(Tail(thresholds))

\* Mutant: thresholdMode is '1' for 'number' and '2' for anything else.
xunit_number_or_else(xml_parent, data) ==
    LET thresholds == IF Has(data, "thresholds")
                      THEN XunitThresholds(data["thresholds"]) ELSE <<>>
        thresholdmode ==
            IF S("number") = Get(data, "thresholdmode", S("number"))
            THEN "1" ELSE "2"
    IN  IF ~Has(data, "types")
        THEN KeyError(SubElement(xml_parent, Element("xunit")), "types")
        ELSE Ok(SubElement(xml_parent,
                 Node("xunit",
                     XunitTypes(supported_types(data["types"]))
                     \o <<Node("thresholds", thresholds),
                          Text("thresholdMode", S(thresholdmode))>>)))

\* def xunit(parser, xml_parent, data)
xunit(xml_parent, data) ==
    LET thresholds == IF Has(data, "thresholds")
                      THEN XunitThresholds(data["thresholds"]) ELSE <<>>
        thresholdmode ==
            IF S("percent") = Get(data, "thresholdmode", S("number"))
            THEN "2" ELSE "1"
    IN  IF ~Has(data, "types")
        THEN KeyError(SubElement(xml_parent, Element("xunit")), "types")
        ELSE Ok(SubElement(xml_parent,
                 Node("xunit",
                     XunitTypes(supported_types(data["types"]))
                     \o <<Node("thresholds", thresholds),
                          Text("thresholdMode", S(thresholdmode))>>)))

\* Mutant: the defaults replace every false value (`data.get(k) or d`).
violations_add_entry_or_default(xml_parent, name, data) ==
    LET OrDefault(key, default) ==
            IF Truthy(Get(data, key, None)) THEN data[key] ELSE default
        pattern == Get(data, "pattern", None)
    IN  SubElement(xml_parent,
          Node("entry",
            <<Text("string", S(name)),
              Node("hudson.plugins.violations.TypeConfig",
                <<Text("type", S(name)),
                  Text("min", S(PyStr(OrDefault("min", I(10))))),
                  Text("max", S(PyStr(OrDefault("max", I(999))))),
                  Text("unstable", S(PyStr(OrDefault("unstable", I(999))))),
                  Text("usePattern", S("false")),
                  IF Truthy(pattern) THEN Text("pattern", pattern)
                  ELSE Element("pattern")>>)>>))

\* def _violations_add_entry(xml_parent, name, data)
violations_add_entry(xml_parent, name, data) ==
    LET vmin == Get(data, "min", I(10))
        vmax == Get(data, "max", I(999))
        vunstable == Get(data, "unstable", I(999))
        pattern == Get(data, "pattern", None)
    IN  SubElement(xml_parent,
          Node("entry",
            <<Text("string", S(name)),
              Node("hudson.plugins.violations.TypeConfig",
                <<Text("type", S(name)),
                  Text("min", S(PyStr(vmin))),
                  Text("max", S(PyStr(vmax))),
                  Text("unstable", S(PyStr(vunstable))),
                  Text("usePattern", S("false")),
                  IF Truthy(pattern) THEN Text("pattern", pattern)
                  ELSE Element("pattern")>>)>>))

\* The list of systems violations iterates over.
ViolationSystems ==
    <<"checkstyle", "codenarc", "cpd", "cpplint", "csslint", "findbugs",
      "fxcop", "gendarme", "jcreport", "jslint", "pep8", "pmd", "pylint",
      "simian", "stylecop">>

\* violations, the loop: typeConfigs after the entries of names[k..].
RECURSIVE ViolationEntries(_, _, _)
ViolationEntries(configs, data, k) ==
    IF k > Len(ViolationSystems) THEN configs
    ELSE ViolationEntries(
             violations_add_entry(configs, ViolationSystems[k],
                 Get(data, ViolationSystems[k], EmptyDict)),
             data, k + 1)

\* def violations(parser, xml_parent, data)
violations(xml_parent, data) ==
    Ok(SubElement(xml_parent,
        Node("hudson.plugins.violations.ViolationsPublisher",
          <<Node("config",
              <<WithAttrib(Node("suppressions", <<Element("no-comparator")>>),
                           "class" :> S("tree-set")),
                ViolationEntries(
                    Node("typeConfigs", <<Element("no-comparator")>>),
                    data, 1),
                Text("limit", S("100")),
                Element("sourcePathPattern"),
                Element("fauxProjectPath"),
                Text("encoding", S("default"))>>)>>)))

\* checkstyle's repeated step for a numeric option:
\*   if dval: SubElement(p, tag).text = str(dval)  else: SubElement(p, tag)
DvalElement(tag, dval) ==
    IF Truthy(dval) THEN Text(tag, S(PyStr(dval))) ELSE Element(tag)

\* def checkstyle(parser, xml_parent, data)
checkstyle(xml_parent, data) ==
    LET dthresholds == Get(data, "thresholds", EmptyDict)
        dunstable == Get(dthresholds, "unstable", EmptyDict)
        dfailed == Get(dthresholds, "failed", EmptyDict)
    IN  Ok(SubElement(xml_parent,
          Node("hudson.plugins.checkstyle.CheckStylePublisher",
            <<DvalElement("healthy", Get(data, "healthy", None)),
              DvalElement("unHealthy", Get(data, "unHealthy", None)),
              Text("thresholdLimit", Get(data, "healthThreshold", S("low"))),
              Text("pluginName", S("[CHECKSTYLE] ")),
              Text("defaultEncoding", Get(data, "defaultEncoding", S(""))),
              Text("canRunOnFailed",
                   BoolText(Truthy(Get(data, "canRunOnFailed", B(FALSE))))),
              Text("useStableBuildAsReference", S("false")),
              Text("useDeltaValues", S("false")),
              Node("thresholds",
                <<DvalElement("unstableTotalAll",
                              Get(dunstable, "totalAll", None)),
                  DvalElement("unstableTotalHigh",
                              Get(dunstable, "totalHigh", None)),
                  DvalElement("unstableTotalNormal",
                              Get(dunstable, "totalNormal", None)),
                  DvalElement("unstableTotalLow",
                              Get(dunstable, "totalLow", None)),
                  DvalElement("failedTotalAll",
                              Get(dfailed, "totalAll", None)),
                  DvalElement("failedTotalHigh",
                              Get(dfailed, "totalHigh", None)),
                  DvalElement("failedTotalNormal",
                              Get(dfailed, "totalNormal", None)),
                  DvalElement("failedTotalLow",
                              Get(dfailed, "totalLow", None))>>),
              Text("shouldDetectModules",
                   BoolText(Truthy(Get(data, "shouldDetectModules",
                                       B(FALSE))))),
              Text("dontComputeNew", S("true")),
              Text("doNotResolveRelativePaths", S("false")),
              Text("pattern", Get(data, "pattern", S("")))>>)))

\* scp, the loop over data['files'][k..]: the Entry elements appended to
\* 'entries', and the exception that ended the loop, if any.
RECURSIVE ScpEntries(_, _, _)
ScpEntries(files, k, done) ==
    IF k > Len(files) THEN [children |-> done, err |-> NoError]
    ELSE LET entry == files[k]
             tag == "be.certipost.hudson.plugin.Entry"
         IN  IF ~Has(entry, "target")
             THEN [children |-> Append(done,
                                    Node(tag, <<Element("filePath")>>)),
                   err |-> [kind |-> "KeyError", msg |-> "target"]]
             ELSE ScpEntries(files, k + 1, Append(done,
                    Node(tag,
                      <<Text("filePath", entry["target"]),
                        Text("sourceFile", Get(entry, "source", S(""))),
                        Text("keepHierarchy", BoolText(Truthy(
                            Get(entry, "keep-hierarchy", B(FALSE))))),
                        Text("copyConsoleLog", BoolText(Truthy(
                            Get(entry, "copy-console", B(FALSE))))),
                        Text("copyAfterFailure", BoolText(Truthy(
                            Get(entry, "copy-after-failure", B(FALSE)))))>>)))

\* def scp(parser, xml_parent, data)
scp(xml_parent, data) ==
    LET tag == "be.certipost.hudson.plugin.SCPRepositoryPublisher"
        loop == ScpEntries(data["files"], 1, <<>>)
    IN  IF ~Has(data, "site") THEN KeyError(xml_parent, "site")
        ELSE IF ~Has(data, "files")
        THEN KeyError(SubElement(xml_parent,
                 Node(tag, <<Text("siteName", data["site"]),
                             Element("entries")>>)), "files")
        ELSE [parent |-> SubElement(xml_parent,
                 Node(tag, <<Text("siteName", data["site"]),
                             Node("entries", loop.children)>>)),
              err |-> loop.err]

\* Mutant: the element is built for the empty string too.
pipeline_unconditional(xml_parent, data) ==
    Ok(SubElement(xml_parent,
        Node("au.com.centrumsystems.hudson.plugin.buildpipeline.trigger.BuildPipelineTrigger",
             <<Text("downstreamProjectNames", data)>>)))

\* def pipeline(parser, xml_parent, data)
pipeline(xml_parent, data) ==
    IF data # S("")
    THEN Ok(SubElement(xml_parent,
            Node("au.com.centrumsystems.hudson.plugin.buildpipeline.trigger.BuildPipelineTrigger",
                 <<Text("downstreamProjectNames", data)>>)))
    ELSE Ok(xml_parent)

\* Mutant: the notify flag is written without the reversal.
email_not_reversed(xml_parent, data) ==
    LET tag == "hudson.tasks.Mailer"
    IN  IF ~Has(data, "recipients")
        THEN KeyError(SubElement(xml_parent,
                 Node(tag, <<Element("recipients")>>)), "recipients")
        ELSE Ok(SubElement(xml_parent,
                 Node(tag,
                   <<Text("recipients", data["recipients"]),
                     Text("dontNotifyEveryUnstableBuild",
                          IF Truthy(Get(data, "notify-every-unstable-build",
                                        B(TRUE)))
                          THEN S("true") ELSE S("false")),
                     Text("sendToIndividuals",
                          StrLower(Get(data, "send-to-individuals",
                                       B(FALSE))))>>)))

\* Mutant: 'recipients' is looked up before the Mailer element is made.
email_validating_first(xml_parent, data) ==
    LET tag == "hudson.tasks.Mailer"
    IN  IF ~Has(data, "recipients")
        THEN KeyError(xml_parent, "recipients")
        ELSE Ok(SubElement(xml_parent,
                 Node(tag,
                   <<Text("recipients", data["recipients"]),
                     Text("dontNotifyEveryUnstableBuild",
                          IF Truthy(Get(data, "notify-every-unstable-build",
                                        B(TRUE)))
                          THEN S("false") ELSE S("true")),
                     Text("sendToIndividuals",
                          StrLower(Get(data, "send-to-individuals",
                                       B(FALSE))))>>)))

\* def email(parser, xml_parent, data)
email(xml_parent, data) ==
    LET tag == "hudson.tasks.Mailer"
    IN  IF ~Has(data, "recipients")
        THEN KeyError(SubElement(xml_parent,
                 Node(tag, <<Element("recipients")>>)), "recipients")
        ELSE Ok(SubElement(xml_parent,
                 Node(tag,
                   <<Text("recipients", data["recipients"]),
                     Text("dontNotifyEveryUnstableBuild",
                          IF Truthy(Get(data, "notify-every-unstable-build",
                                        B(TRUE)))
                          THEN S("false") ELSE S("true")),
                     Text("sendToIndividuals",
                          StrLower(Get(data, "send-to-individuals",
                                       B(FALSE))))>>)))

\* Mutant: the claim element replaces what the parent held.
claim_build_replacing(xml_parent, data) ==
    Ok([xml_parent EXCEPT !.children =
            <<Element("hudson.plugins.claim.ClaimPublisher")>>])

\* def claim_build(parser, xml_parent, data)
claim_build(xml_parent, data) ==
    Ok(SubElement(xml_parent, Element("hudson.plugins.claim.ClaimPublisher")))

\* def base_email_ext(parser, xml_parent, data, ttype)
base_email_ext(xml_parent, data, ttype) ==
    SubElement(xml_parent,
        Node("hudson.plugins.emailext.plugins.trigger." \o ttype,
          <<Node("email",
              <<Text("recipientList", S("")),
                Text("subject", S("$PROJECT_DEFAULT_SUBJECT")),
                Text("body", S("$PROJECT_DEFAULT_CONTENT")),
                Text("sendToDevelopers", S("false")),
                Text("sendToRequester", S("false")),
                Text("includeCulprits", S("false")),
                Text("sendToRecipientList", S("true"))>>)>>))

\* email_ext's configured triggers, in the order the code tests them:
\* the config key, its default and the trigger type.
EmailExtTriggers ==
    <<[key |-> "unstable", default |-> FALSE, ttype |-> "UnstableTrigger"],
      [key |-> "first-failure", default |-> FALSE,
       ttype |-> "FirstFailureTrigger"],
      [key |-> "not-built", default |-> FALSE, ttype |-> "NotBuiltTrigger"],
      [key |-> "aborted", default |-> FALSE, ttype |-> "AbortedTrigger"],
      [key |-> "regression", default |-> FALSE,
       ttype |-> "RegressionTrigger"],
      [key |-> "failure", default |-> TRUE, ttype |-> "FailureTrigger"],
      [key |-> "improvement", default |-> FALSE,
       ttype |-> "ImprovementTrigger"],
      [key |-> "still-failing", default |-> FALSE,
       ttype |-> "StillFailingTrigger"],
      [key |-> "success", default |-> FALSE, ttype |-> "SuccessTrigger"],
      [key |-> "fixed", default |-> FALSE, ttype |-> "FixedTrigger"],
      [key |-> "still-unstable", default |-> FALSE,
       ttype |-> "StillUnstableTrigger"],
      [key |-> "pre-build", default |-> FALSE, ttype |-> "PreBuildTrigger"]>>

\* email_ext, the sequence of `if data.get(key, default): base_email_ext`
\* statements from the k-th on, applied to configuredTriggers.
RECURSIVE EmailExtConfigured(_, _, _)
EmailExtConfigured(ctrigger, data, k) ==
    IF k > Len(EmailExtTriggers) THEN ctrigger
    ELSE LET tr == EmailExtTriggers[k]
         IN  EmailExtConfigured(
                 IF Truthy(Get(data, tr.key, B(tr.default)))
                 THEN base_email_ext(ctrigger, data, tr.ttype)
                 ELSE ctrigger,
                 data, k + 1)

\* def email_ext(parser, xml_parent, data)
email_ext(xml_parent, data) ==
    Ok(SubElement(xml_parent,
        Node("hudson.plugins.emailext.ExtendedEmailPublisher",
          <<Text("recipientList",
                 IF Has(data, "recipients") THEN data["recipients"]
                 ELSE S("$DEFAULT_RECIPIENTS")),
            EmailExtConfigured(Element("configuredTriggers"), data, 1),
            Text("contentType", S("default")),
            Text("defaultSubject", Get(data, "subject", S("$DEFAULT_SUBJECT"))),
            Text("defaultContent", Get(data, "body", S("$DEFAULT_CONTENT"))),
            Text("attachmentsPattern", S("")),
            Text("presendScript", S("")),
            Text("matrixTriggerMode",
                 Get(data, "matrixTriggerMode", S("BOTH")))>>)))

\* Mutant: recording the artifacts blanks the targets.
fingerprint_coupled(xml_parent, data) ==
    Ok(SubElement(xml_parent,
        Node("hudson.tasks.Fingerprinter",
          <<Text("targets",
                 IF Truthy(Get(data, "record-artifacts", B(FALSE)))
                 THEN S("") ELSE Get(data, "files", S(""))),
            Text("recordBuildArtifacts",
                 StrLower(Get(data, "record-artifacts", B(FALSE))))>>)))

\* def fingerprint(parser, xml_parent, data)
fingerprint(xml_parent, data) ==
    Ok(SubElement(xml_parent,
        Node("hudson.tasks.Fingerprinter",
          <<Text("targets", Get(data, "files", S(""))),
            Text("recordBuildArtifacts",
                 StrLower(Get(data, "record-artifacts", B(FALSE))))>>)))

\* def aggregate_tests(parser, xml_parent, data)
aggregate_tests(xml_parent, data) ==
    Ok(SubElement(xml_parent,
        Node("hudson.tasks.test.AggregatedTestResultPublisher",
          <<Text("includeFailedBuilds",
                 StrLower(Get(data, "include-failed-builds", B(FALSE))))>>)))

\* def cppcheck(parser, xml_parent, data)
cppcheck(xml_parent, data) ==
    LET tag == "org.jenkinsci.plugins.cppcheck.CppcheckPublisher"
        thrsh == Get(data, "thresholds", EmptyDict)
        sev == Get(thrsh, "severity", EmptyDict)
        graph == Get(data, "graph", EmptyDict)
        xysize == Get(graph, "xysize", <<I(500), I(200)>>)
        gdisplay == Get(graph, "display", EmptyDict)
        StrOf(d, key) == S(PyStr(Get(d, key, S(""))))
    IN  IF ~Has(data, "pattern")
        THEN KeyError(SubElement(xml_parent,
                 Node(tag, <<Node("cppcheckConfig",
                                  <<Element("pattern")>>)>>)), "pattern")
        ELSE Ok(SubElement(xml_parent,
          Node(tag, <<Node("cppcheckConfig",
            <<Text("pattern", data["pattern"]),
              Text("ignoreBlankFiles",
                   StrLower(Get(data, "ignoreblankfiles", S("false")))),
              Node("configSeverityEvaluation",
                <<Text("threshold", StrOf(thrsh, "unstable")),
                  Text("newThreshold", StrOf(thrsh, "new-unstable")),
                  Text("failureThreshold", StrOf(thrsh, "failure")),
                  Text("newFailureThreshold", StrOf(thrsh, "new-failure")),
                  Text("healthy", StrOf(thrsh, "healthy")),
                  Text("unHealthy", StrOf(thrsh, "unhealthy")),
                  Text("severityError",
                       StrLower(Get(sev, "error", S("true")))),
                  Text("severityWarning",
                       StrLower(Get(sev, "warning", S("true")))),
                  Text("severityStyle",
                       StrLower(Get(sev, "style", S("true")))),
                  Text("severityPerformance",
                       StrLower(Get(sev, "performance", S("true")))),
                  Text("severityInformation",
                       StrLower(Get(sev, "information", S("true"))))>>),
              Node("configGraph",
                <<Text("xSize", S(PyStr(xysize[1]))),
                  Text("ySize", S(PyStr(xysize[2]))),
                  Text("displayAllErrors",
                       StrLower(Get(gdisplay, "sum", S("true")))),
                  Text("displayErrorSeverity",
                       StrLower(Get(gdisplay, "error", S("false")))),
                  Text("displayWarningSeverity",
                       StrLower(Get(gdisplay, "warning", S("false")))),
                  Text("displayStyleSeverity",
                       StrLower(Get(gdisplay, "style", S("false")))),
                  Text("displayPerformanceSeverity",
                       StrLower(Get(gdisplay, "performance", S("false")))),
                  Text("displayInformationSeverity",
                       StrLower(Get(gdisplay, "information",
                                    S("false"))))>>)>>)>>)))

\* def logparser(parser, xml_parent, data)
logparser(xml_parent, data) ==
    Ok(SubElement(xml_parent,
        Node("hudson.plugins.logparser.LogParserPublisher",
          <<Text("unstableOnWarning",
                 StrLower(Get(data, "unstable-on-warning", S("false")))),
            Text("failBuildOnError",
                 StrLower(Get(data, "fail-on-error", S("false")))),
            Text("parsingRulesPath", Get(data, "parse-rules", S("")))>>)))

\* ','.join(list)
RECURSIVE Join(_)
Join(list) ==
    IF list = <<>> THEN ""
    ELSE IF Len(list) = 1 THEN list[1].v
    ELSE list[1].v \o "," \o Join(Tail(list))

\* def copy_to_master(parser, xml_parent, data)
copy_to_master(xml_parent, data) ==
    Ok(SubElement(xml_parent,
        Node("com.michelin.cio.hudson.plugins.copytoslave.CopyToMasterNotifier",
          <<Text("includes", S(Join(Get(data, "includes", <<S("")>>)))),
            Text("excludes", S(Join(Get(data, "excludes", <<S("")>>)))),
            Text("destinationFolder", Get(data, "destination", S("")))>>
          \o (IF Truthy(Get(data, "destination", S("")))
              THEN <<Text("overrideDestinationFolder", S("true"))>>
              ELSE <<>>))))

\* def jira(parser, xml_parent, data)
jira(xml_parent, data) ==
    Ok(SubElement(xml_parent, Element("hudson.plugins.jira.JiraIssueUpdater")))

\* def groovy_postbuild(parser, xml_parent, data)
groovy_postbuild(xml_parent, data) ==
    Ok(SubElement(xml_parent,
        Node("org.jvnet.hudson.plugins.groovypostbuild.GroovyPostbuildRecorder",
             <<Text("groovyScript", data)>>)))

(* ------------------------------------------------------------------ *)
(* The registry and the dispatcher (jenkins_jobs.modules.base).        *)
(* ------------------------------------------------------------------ *)

\* The names the handlers are registered under: the `yaml:` name of each
\* handler's docstring.
RegisteredNames ==
    {"archive", "deploy", "trigger-parameterized-builds", "trigger",
     "coverage", "ftp", "junit", "xunit", "violations", "checkstyle", "scp",
     "pipeline", "email", "claim-build", "email-ext", "fingerprint",
     "aggregate-tests", "cppcheck", "logparser", "copy-to-master", "jira",
     "groovy-postbuild", "cifs"}

\* The handler registered under a name, called with (xml_parent, data).
Handler(name, xml_parent, data) ==
    CASE name = "archive" -> archive(xml_parent, data)
      [] name = "deploy" -> deploy(xml_parent, data)
      [] name = "trigger-parameterized-builds" ->
             trigger_parameterized_builds(xml_parent, data)
      [] name = "trigger" -> trigger(xml_parent, data)
      [] name = "coverage" -> coverage(xml_parent, data)
      [] name = "ftp" -> ftp(xml_parent, data)
      [] name = "junit" -> junit(xml_parent, data)
      [] name = "xunit" -> xunit(xml_parent, data)
      [] name = "violations" -> violations(xml_parent, data)
      [] name = "checkstyle" -> checkstyle(xml_parent, data)
      [] name = "scp" -> scp(xml_parent, data)
      [] name = "pipeline" -> pipeline(xml_parent, data)
      [] name = "email" -> email(xml_parent, data)
      [] name = "claim-build" -> claim_build(xml_parent, data)
      [] name = "email-ext" -> email_ext(xml_parent, data)
      [] name = "fingerprint" -> fingerprint(xml_parent, data)
      [] name = "aggregate-tests" -> aggregate_tests(xml_parent, data)
      [] name = "cppcheck" -> cppcheck(xml_parent, data)
      [] name = "logparser" -> logparser(xml_parent, data)
      [] name = "copy-to-master" -> copy_to_master(xml_parent, data)
      [] name = "jira" -> jira(xml_parent, data)
      [] name = "groovy-postbuild" -> groovy_postbuild(xml_parent, data)
      [] name = "cifs" -> cifs(xml_parent, data)

\* Base._dispatch('publisher', 'publishers', parser, xml_parent, action):
\* an unregistered name is a ConfigurationError naming the action, raised
\* before anything is built; a registered one calls its handler.
Dispatch(xml_parent, action) ==
    IF action.name \notin RegisteredNames
    THEN Raise(xml_parent, "ConfigurationError", action.name)
    ELSE Handler(action.name, xml_parent, action.config)

(* ------------------------------------------------------------------ *)
(* The explored inputs: configs as the docstrings describe them, with  *)
(* each key present or absent, and values inside and outside the       *)
(* documented sets.                                                    *)
(* ------------------------------------------------------------------ *)

\* Every dict that gives some of the keys of V a value of that key's set.
RECURSIVE Dicts(_)
Dicts(V) ==
    IF DOMAIN V = {} THEN {EmptyDict}
    ELSE LET key == CHOOSE k \in DOMAIN V : TRUE
             rest == Dicts([j \in DOMAIN V \ {key} |-> V[j]])
         IN  rest \cup {(key :> val) @@ d : val \in V[key], d \in rest}

\* Every list of at most n elements of set.
RECURSIVE SeqsUpTo(_, _)
SeqsUpTo(set, n) ==
    IF n = 0 THEN {<<>>}
    ELSE LET shorter == SeqsUpTo(set, n - 1)
         IN  shorter \cup {Append(l, e) : l \in shorter, e \in set}

Singletons(set) == {<<e>> : e \in set}

ArchiveData ==
    Dicts([artifacts |-> {S("*.tar.gz")}, excludes |-> {S("*.tmp")},
           latest_only |-> {B(TRUE), B(FALSE)}])

DeployData ==
    Dicts([artifacts |-> {S("*.war")}, files |-> {S("*.war")},
           remote |-> {S("/var/deploy")}])

ProjectDefs ==
    Dicts(("project" :> {S("other_job")})
          @@ ("predefined-parameters" :> {S("foo=bar")})
          @@ ("git-revision" :> {B(TRUE), B(FALSE)})
          @@ ("property-file" :> {S(""), S("version.prop")})
          @@ ("condition" :> {S("UNSTABLE")}))

SampleProjectDefs ==
    {"project" :> S("other_job"),
     ("project" :> S("yet_another_job")) @@ ("git-revision" :> B(TRUE)),
     "condition" :> S("UNSTABLE")}

TriggerParameterizedData ==
    Singletons(ProjectDefs) \cup SeqsUpTo(SampleProjectDefs, MaxList)

TriggerData ==
    Dicts([project |-> {S("other_job")},
           threshold |-> {S("SUCCESS"), S("UNSTABLE"), S("FAILURE"),
                          S("BOGUS")}])

CoverageData == {EmptyDict, "ignored" :> S("x")}

PublishOverData ==
    Dicts(("site" :> {S("s")}) @@ ("target" :> {S("dest")})
          @@ ("source" :> {S("a/**")}) @@ ("excludes" :> {S("**/*.bak")})
          @@ ("remove-prefix" :> {S("a")}))

JunitData == Dicts([results |-> {S("out.xml"), S("nosetests.xml")}])

SampleTypes ==
    {<<[k |-> "phpunit", v |-> "pattern" :> S("junit.log")]>>,
     <<[k |-> "cppUnit", v |-> "pattern" :> S("cppunit.log")]>>,
     <<[k |-> "junit", v |-> EmptyDict]>>,
     <<[k |-> "cppunit",
        v |-> [requireupdate |-> B(FALSE), deleteoutput |-> B(FALSE),
               stoponerror |-> B(FALSE)]]>>}

FailedThresholds ==
    [k |-> "failed",
     v |-> <<[k |-> "unstable", v |-> I(0)], [k |-> "failure", v |-> I(0)]>>]

SkippedThresholds ==
    [k |-> "skipped", v |-> <<[k |-> "unstablenew", v |-> I(0)]>>]

PassedThresholds ==
    [k |-> "passed", v |-> <<[k |-> "unstable", v |-> I(1)]>>]

SampleThresholds ==
    {<<FailedThresholds>>, <<SkippedThresholds>>, <<PassedThresholds>>,
     <<FailedThresholds, SkippedThresholds>>,
     <<SkippedThresholds, FailedThresholds>>,
     <<PassedThresholds, FailedThresholds>>}

XunitData ==
    {"types" :> l : l \in SeqsUpTo(SampleTypes, MaxList)}
    \cup {("types" :> <<<<[k |-> "junit", v |-> EmptyDict]>>>>)
          @@ ("thresholds" :> l) : l \in SeqsUpTo(SampleThresholds, MaxList)}
    \cup {("types" :> <<<<[k |-> "junit", v |-> EmptyDict]>>>>)
          @@ ("thresholdmode" :> S(m)) : m \in {"number", "percent", "bogus"}}
    \cup {"thresholds" :> <<t>> : t \in SampleThresholds}
    \cup {EmptyDict, "thresholdmode" :> S("percent")}

ViolationsData ==
    LET sub == {EmptyDict,
                [min |-> I(0), max |-> I(1), unstable |-> I(1),
                 pattern |-> S("**/pep8.txt")],
                [min |-> I(5)],
                [pattern |-> S("")]}
    IN  Dicts([checkstyle |-> sub, pep8 |-> sub, frobnicate |-> sub])

CheckstyleData ==
    Dicts([healthy |-> {I(0), I(5)},
           healthThreshold |-> {S("high"), S("bogus")},
           canRunOnFailed |-> {B(TRUE), B(FALSE)},
           shouldDetectModules |-> {B(TRUE), B(FALSE)},
           thresholds |-> {[unstable |-> [totalHigh |-> I(10)],
                            failed |-> [totalHigh |-> I(1)]],
                           [unstable |-> [totalAll |-> I(0)]]}])
    \cup Dicts([pattern |-> {S("**/checkstyle-result.xml")},
                unHealthy |-> {I(100)}, defaultEncoding |-> {S("UTF-8")}])

ScpEntryData ==
    Dicts(("target" :> {S("dest/dir")}) @@ ("source" :> {S("base/**")})
          @@ ("keep-hierarchy" :> {B(TRUE)}) @@ ("copy-console" :> {B(TRUE)})
          @@ ("copy-after-failure" :> {B(TRUE)}))

SampleScpEntries ==
    {("target" :> S("dest/dir")) @@ ("source" :> S("base/**")),
     "target" :> S("logs"),
     "copy-console" :> B(TRUE)}

ScpData ==
    LET files == Singletons(ScpEntryData)
                 \cup SeqsUpTo(SampleScpEntries, MaxList)
    IN  {("site" :> S("example.com")) @@ ("files" :> l) : l \in files}
        \cup {EmptyDict, "site" :> S("example.com"),
              "files" :> <<"target" :> S("logs")>>}

PipelineData == {S(""), S("deploy")}

EmailData ==
    Dicts(("recipients" :> {S("breakage@example.com")})
          @@ ("notify-every-unstable-build" :> {B(TRUE), B(FALSE)})
          @@ ("send-to-individuals" :> {B(TRUE), B(FALSE)}))

ClaimBuildData == {EmptyDict}

EmailExtData ==
    Dicts(("recipients" :> {S("foo@example.com")})
          @@ ("unstable" :> {B(TRUE)})
          @@ ("failure" :> {B(TRUE), B(FALSE)})
          @@ ("pre-build" :> {B(TRUE)})
          @@ ("matrixTriggerMode" :> {S("ONLY_PARENT"), S("bogus")}))

FingerprintData ==
    Dicts(("files" :> {S("builddir/test*.xml")})
          @@ ("record-artifacts" :> {B(TRUE), B(FALSE)}))

AggregateTestsData ==
    Dicts("include-failed-builds" :> {B(TRUE), B(FALSE)})

CppcheckData ==
    Dicts([pattern |-> {S("**/cppcheck.xml")},
           ignoreblankfiles |-> {B(TRUE)},
           thresholds |-> {("unstable" :> I(5)) @@ ("new-failure" :> I(3)),
                           [severity |-> [error |-> B(TRUE),
                                          information |-> B(FALSE)]]},
           graph |-> {[xysize |-> <<I(640), I(480)>>],
                      [display |-> [sum |-> B(FALSE), error |-> B(TRUE)]]}])

LogparserData ==
    Dicts(("parse-rules" :> {S("/path/to/parserules")})
          @@ ("unstable-on-warning" :> {B(TRUE), B(FALSE)})
          @@ ("fail-on-error" :> {B(TRUE), B(FALSE)}))

CopyToMasterData ==
    Dicts([includes |-> {<<S("file1"), S("file2*.txt")>>, <<S("file1")>>},
           excludes |-> {<<S("file2bad.txt")>>},
           destination |-> {S(""), S("/tmp/out")}])

JiraData == {EmptyDict}

GroovyPostbuildData == {S("manager.buildFailure()")}

\* The configs explored for each action name; "frobnicate" and "pipleline"
\* (the spelling of the pipeline docstring's example) are not registered.
DataOf(name) ==
    CASE name = "archive" -> ArchiveData
      [] name = "deploy" -> DeployData
      [] name = "trigger-parameterized-builds" -> TriggerParameterizedData
      [] name = "trigger" -> TriggerData
      [] name = "coverage" -> CoverageData
      [] name \in {"ftp", "cifs"} -> PublishOverData
      [] name = "junit" -> JunitData
      [] name = "xunit" -> XunitData
      [] name = "violations" -> ViolationsData
      [] name = "checkstyle" -> CheckstyleData
      [] name = "scp" -> ScpData
      [] name \in {"pipeline", "pipleline"} -> PipelineData
      [] name = "email" -> EmailData
      [] name = "claim-build" -> ClaimBuildData
      [] name = "email-ext" -> EmailExtData
      [] name = "fingerprint" -> FingerprintData
      [] name = "aggregate-tests" -> AggregateTestsData
      [] name = "cppcheck" -> CppcheckData
      [] name = "logparser" -> LogparserData
      [] name = "copy-to-master" -> CopyToMasterData
      [] name = "jira" -> JiraData
      [] name = "groovy-postbuild" -> GroovyPostbuildData
      [] name = "frobnicate" -> {EmptyDict}

ActionNames == RegisteredNames \cup {"frobnicate", "pipleline"}

Action(name, config) == [name |-> name, config |-> config]

AllActions ==
    UNION {{Action(name, config) : config \in DataOf(name)} :
           name \in ActionNames}

\* The actions that longer lists are built from: ones that compile, a
\* no-op, and one of each kind of failure.
SampleActions ==
    {Action("archive", [artifacts |-> S("*.tar.gz")]),
     Action("junit", [results |-> S("out.xml")]),
     Action("claim-build", EmptyDict),
     Action("pipeline", S("")),
     Action("pipeline", S("deploy")),
     Action("frobnicate", EmptyDict),
     Action("junit", EmptyDict),
     Action("trigger",
            [project |-> S("other_job"), threshold |-> S("BOGUS")])}

\* The job data gen_xml reads: with or without a 'publishers' list.
JobData ==
    {EmptyDict}
    \cup {"publishers" :> l :
          l \in Singletons(AllActions) \cup SeqsUpTo(SampleActions, MaxActions)}

\* The element gen_xml is given: a project element, empty or already
\* holding what an earlier module built.
Roots == {Element("project"), Node("project", <<Element("builders")>>)}

(* ------------------------------------------------------------------ *)
(* Publishers.gen_xml as a state machine.                              *)
(* ------------------------------------------------------------------ *)
VARIABLES
    data,        \* the job data passed to gen_xml
    xml_parent,  \* the element passed to gen_xml
    pc,          \* "start", "loop", "done" (returned) or "raised"
    i,           \* the position in the list of the next action
    err,         \* the exception that left gen_xml, NoError if none
    invoked,     \* the positions whose handler has been called, in order
    given        \* xml_parent as it was when gen_xml was called

vars == <<data, xml_parent, pc, i, err, invoked, given>>

\* data.get('publishers', [])
Actions == Get(data, "publishers", <<>>)

\* The 'publishers' element gen_xml created: the last child of xml_parent.
Publishers == xml_parent.children[Len(xml_parent.children)]

Init ==
    /\ data \in JobData
    /\ xml_parent \in Roots
    /\ given = xml_parent
    /\ pc = "start"
    /\ i = 0
    /\ err = NoError
    /\ invoked = <<>>

\* publishers = XML.SubElement(xml_parent, 'publishers')
gen_xml_begin ==
    /\ pc = "start"
    /\ xml_parent' = SubElement(xml_parent, Element("publishers"))
    /\ pc' = "loop"
    /\ i' = 1
    /\ UNCHANGED <<data, err, invoked, given>>

\* Mutant: the loop runs over the list backwards.
gen_xml_dispatch_reversed ==
    /\ pc = "loop"
    /\ i <= Len(Actions)
    /\ LET r == Dispatch(Publishers, Actions[Len(Actions) + 1 - i])
       IN  /\ xml_parent' =
                 [xml_parent EXCEPT !.children[Len(xml_parent.children)] =
                                        r.parent]
           /\ invoked' = IF Actions[Len(Actions) + 1 - i].name
                             \in RegisteredNames
                         THEN Append(invoked, i) ELSE invoked
           /\ IF r.err = NoError
              THEN /\ i' = i + 1
                   /\ UNCHANGED <<pc, err>>
              ELSE /\ pc' = "raised"
                   /\ err' = r.err
                   /\ UNCHANGED i
    /\ UNCHANGED <<data, given>>

\* Mutant: the handlers are given xml_parent instead of `publishers`.
gen_xml_dispatch_into_parent ==
    /\ pc = "loop"
    /\ i <= Len(Actions)
    /\ LET r == Dispatch(xml_parent, Actions[i])
       IN  /\ xml_parent' = r.parent
           /\ invoked' = IF Actions[i].name \in RegisteredNames
                         THEN Append(invoked, i) ELSE invoked
           /\ IF r.err = NoError
              THEN /\ i' = i + 1
                   /\ UNCHANGED <<pc, err>>
              ELSE /\ pc' = "raised"
                   /\ err' = r.err
                   /\ UNCHANGED i
    /\ UNCHANGED <<data, given>>

\* Mutant: an exception of a dispatch is caught and the loop goes on.
gen_xml_dispatch_swallowing ==
    /\ pc = "loop"
    /\ i <= Len(Actions)
    /\ LET r == Dispatch(Publishers, Actions[i])
       IN  /\ xml_parent' =
                 [xml_parent EXCEPT !.children[Len(xml_parent.children)] =
                                        r.parent]
           /\ invoked' = IF Actions[i].name \in RegisteredNames
                         THEN Append(invoked, i) ELSE invoked
           /\ i' = i + 1
           /\ UNCHANGED <<pc, err>>
    /\ UNCHANGED <<data, given>>

\* One iteration of `for action in data.get('publishers', [])`:
\* self._dispatch('publisher', 'publishers', parser, publishers, action).
\* An exception leaves the loop and gen_xml.
gen_xml_dispatch ==
    /\ pc = "loop"
    /\ i <= Len(Actions)
    /\ LET r == Dispatch(Publishers, Actions[i])
       IN  /\ xml_parent' =
                 [xml_parent EXCEPT !.children[Len(xml_parent.children)] =
                                        r.parent]
           /\ invoked' = IF Actions[i].name \in RegisteredNames
                         THEN Append(invoked, i) ELSE invoked
           /\ IF r.err = NoError
              THEN /\ i' = i + 1
                   /\ UNCHANGED <<pc, err>>
              ELSE /\ pc' = "raised"
                   /\ err' = r.err
                   /\ UNCHANGED i
    /\ UNCHANGED <<data, given>>

\* The loop is exhausted: gen_xml returns.
gen_xml_return ==
    /\ pc = "loop"
    /\ i > Len(Actions)
    /\ pc' = "done"
    /\ UNCHANGED <<data, xml_parent, i, err, invoked, given>>

Next == gen_xml_begin \/ gen_xml_dispatch \/ gen_xml_return

Spec == Init /\ [][Next]_vars

TypeOK ==
    /\ pc \in {"start", "loop", "done", "raised"}
    /\ i \in 0..(Len(Actions) + 1)
    /\ (pc = "raised") = (err # NoError)

(* ------------------------------------------------------------------ *)
(* Properties.                                                         *)
(* ------------------------------------------------------------------ *)

\* The tags of a sequence of elements.
Tags(children) == [k \in 1..Len(children) |-> children[k].tag]

\* The children of e with the given tag, in order.
RECURSIVE FindAllIn(_, _)
FindAllIn(children, tag) ==
    IF children = <<>> THEN <<>>
    ELSE (IF Head(children).tag = tag THEN <<Head(children)>> ELSE <<>>)
         \o FindAllIn(Tail(children), tag)

FindAll(e, tag) == FindAllIn(e.children, tag)

\* What one action leaves in an empty 'publishers' element.
Alone(action) == Dispatch(Element("publishers"), action)

\* The elements the first n actions produce, each on its own, in order.
RECURSIVE ProducedUpTo(_, _)
ProducedUpTo(actions, n) ==
    IF n = 0 THEN <<>>
    ELSE ProducedUpTo(actions, n - 1) \o Alone(actions[n]).parent.children

\* C1: when gen_xml returns, the children of 'publishers' are the
\* top-level elements of the actions, at most one per action, in the order
\* of the input list.
C1_ChildrenInInputOrder ==
    pc = "done" =>
        /\ Publishers.children = ProducedUpTo(Actions, Len(Actions))
        /\ \A k \in 1..Len(Actions) :
               Len(Alone(Actions[k]).parent.children) <= 1

C1_Witness ==
    /\ pc = "done"
    /\ Len(Actions) = 2
    /\ Tags(Publishers.children) =
           <<"hudson.tasks.junit.JUnitResultArchiver",
             "hudson.tasks.ArtifactArchiver">>

\* C2 as stated: an unregistered action name is a ConfigurationError
\* naming the action, and the element passed to gen_xml has had nothing
\* appended to it.
C2_NothingAppendedToGiven ==
    (pc = "raised" /\ Actions[i].name \notin RegisteredNames) =>
        /\ err = [kind |-> "ConfigurationError", msg |-> Actions[i].name]
        /\ xml_parent = given

\* C2 amended: an unregistered action name is a ConfigurationError naming
\* the action, and the failing dispatch appends nothing to the
\* 'publishers' element it was given, which holds just the subtrees of
\* the earlier actions; the element passed to gen_xml has by then
\* received that 'publishers' element as its new last child.
C2_NothingAppendedToPublishers ==
    (pc = "raised" /\ Actions[i].name \notin RegisteredNames) =>
        /\ err = [kind |-> "ConfigurationError", msg |-> Actions[i].name]
        /\ Len(xml_parent.children) = Len(given.children) + 1
        /\ \A k \in 1..Len(given.children) :
               xml_parent.children[k] = given.children[k]
        /\ Publishers.tag = "publishers"
        /\ Publishers.children = ProducedUpTo(Actions, i - 1)

C2_Witness ==
    /\ pc = "raised"
    /\ err.kind = "ConfigurationError"
    /\ i = 2
    /\ Len(Publishers.children) = 1

\* C3: once the action at position i has failed, gen_xml has raised that
\* failure, no handler of a later position has been called and the
\* 'publishers' element holds nothing of a later action; and gen_xml
\* returns only if no action failed.
C3_FailureAborts ==
    /\ err # NoError =>
           /\ pc = "raised"
           /\ i \in 1..Len(Actions)
           /\ err = Alone(Actions[i]).err
           /\ \A n \in 1..Len(invoked) : invoked[n] <= i
           /\ Publishers.children = ProducedUpTo(Actions, i)
    /\ pc \in {"loop", "done"} =>
           \A k \in 1..(i - 1) : Alone(Actions[k]).err = NoError
    /\ pc = "done" => i = Len(Actions) + 1

C3_Witness ==
    /\ pc = "raised"
    /\ i = 1
    /\ Len(Actions) = 2
    /\ Actions[1].name = "junit"
    /\ Actions[2].name = "archive"

\* The position of the action dispatched last (0 if none yet), the action
\* and, when it built one, its element.
LastPos == IF pc = "raised" THEN i ELSE i - 1

Dispatched == pc \in {"loop", "done", "raised"} /\ LastPos >= 1

Last == Actions[LastPos]

LastOk == Dispatched /\ pc # "raised"

LastElement == Publishers.children[Len(Publishers.children)]

\* The required keys of the handlers that have some.
RequiredKeys ==
    [archive |-> {"artifacts"}, junit |-> {"results"},
     trigger |-> {"project"}, email |-> {"recipients"},
     cppcheck |-> {"pattern"}, ftp |-> {"site", "source", "target"},
     cifs |-> {"site", "source", "target"}, xunit |-> {"types"},
     scp |-> {"site", "files"}]

Missing(action) == RequiredKeys[action.name] \ DOMAIN action.config

LacksRequired(action) ==
    action.name \in DOMAIN RequiredKeys /\ Missing(action) # {}

\* C4 as stated: a handler given a config without one of its required keys
\* fails with a ConfigurationError reporting a missing key.
C4_MissingKeyConfigurationError ==
    (Dispatched /\ LacksRequired(Last)) =>
        /\ pc = "raised"
        /\ err.kind = "ConfigurationError"
        /\ err.msg \in Missing(Last)

\* C4 amended: a handler given a config without one of its required keys
\* fails with a KeyError naming a missing required key; it never completes.
C4_MissingKeyKeyError ==
    (Dispatched /\ LacksRequired(Last)) =>
        /\ pc = "raised"
        /\ err.kind = "KeyError"
        /\ err.msg \in Missing(Last)

C4_Witness ==
    /\ pc = "raised"
    /\ Last.name = "ftp"
    /\ DOMAIN Last.config = {"site", "target"}
    /\ err = [kind |-> "KeyError", msg |-> "source"]

ThresholdNames == {"SUCCESS", "UNSTABLE", "FAILURE"}

\* The messages that list the valid thresholds, in any order.
ThresholdMessages ==
    {"threshold must be one of " \o o[1] \o ", " \o o[2] \o ", " \o o[3] :
        o \in {p \in [1..3 -> ThresholdNames] :
                  {p[1], p[2], p[3]} = ThresholdNames}}

\* C5: trigger with a threshold outside SUCCESS, UNSTABLE, FAILURE fails
\* with an error whose message lists the valid names; with a valid or
\* omitted threshold it emits the name with its ordinal and colour.
C5_TriggerThreshold ==
    (Dispatched /\ Last.name = "trigger" /\ Has(Last.config, "project")) =>
        LET threshold == Get(Last.config, "threshold", S("SUCCESS"))
            expected == [SUCCESS |-> <<"0", "BLUE">>,
                         UNSTABLE |-> <<"1", "YELLOW">>,
                         FAILURE |-> <<"2", "RED">>]
        IN  IF threshold.v \notin ThresholdNames
            THEN /\ pc = "raised"
                 /\ err.kind = "Exception"
                 /\ err.msg \in ThresholdMessages
            ELSE /\ LastOk
                 /\ LastElement.children[2] =
                        Node("threshold",
                            <<Text("name", threshold),
                              Text("ordinal", S(expected[threshold.v][1])),
                              Text("color", S(expected[threshold.v][2]))>>)

\* The half of C5 about valid thresholds.
C5_ValidThresholds ==
    (Dispatched /\ Last.name = "trigger" /\ Has(Last.config, "project")
     /\ Get(Last.config, "threshold", S("SUCCESS")).v \in ThresholdNames) =>
        C5_TriggerThreshold

\* Whether the action has a value outside the fixed set of its field.
InvalidEnum(action) ==
    LET Outside(key, set) ==
            Has(action.config, key) /\ action.config[key].v \notin set
    IN  \/ action.name = "xunit"
           /\ Outside("thresholdmode", {"number", "percent"})
        \/ action.name = "checkstyle"
           /\ Outside("healthThreshold", {"high", "normal", "low"})
        \/ action.name = "email-ext"
           /\ Outside("matrixTriggerMode",
                      {"BOTH", "ONLY_PARENT", "ONLY_CONFIGURATION"})
        \/ action.name = "trigger" /\ Outside("threshold", ThresholdNames)

\* C6 as stated: a value outside the fixed set of thresholdmode,
\* healthThreshold, matrixTriggerMode or threshold makes the handler fail.
C6_InvalidEnumFails ==
    (Dispatched /\ InvalidEnum(Last)) => pc = "raised"

\* C6 amended: only trigger fails on a threshold outside its set; xunit
\* encodes every thresholdmode but 'percent' as '1'; checkstyle and
\* email-ext complete and copy healthThreshold and matrixTriggerMode to the
\* output as given.
C6_OnlyTriggerFails ==
    Dispatched =>
        /\ (Last.name = "trigger" /\ InvalidEnum(Last)) => pc = "raised"
        /\ (Last.name = "xunit" /\ Has(Last.config, "types")) =>
              /\ LastOk
              /\ LastElement.children[Len(LastElement.children)] =
                    Text("thresholdMode",
                         IF Has(Last.config, "thresholdmode")
                            /\ Last.config["thresholdmode"].v = "percent"
                         THEN S("2") ELSE S("1"))
        /\ Last.name = "checkstyle" =>
              /\ LastOk
              /\ LastElement.children[3] =
                    Text("thresholdLimit",
                         IF Has(Last.config, "healthThreshold")
                         THEN Last.config["healthThreshold"] ELSE S("low"))
        /\ Last.name = "email-ext" =>
              /\ LastOk
              /\ LastElement.children[Len(LastElement.children)] =
                    Text("matrixTriggerMode",
                         IF Has(Last.config, "matrixTriggerMode")
                         THEN Last.config["matrixTriggerMode"]
                         ELSE S("BOTH"))

C6_Witness ==
    /\ LastOk
    /\ Last.name = "xunit"
    /\ Has(Last.config, "thresholdmode")
    /\ Last.config["thresholdmode"] = S("bogus")
    /\ LastElement.children[Len(LastElement.children)].text = S("1")

\* The plugin element each handler appends to its parent.
PluginTag ==
    ("archive" :> "hudson.tasks.ArtifactArchiver")
    @@ ("deploy" :>
        "org.jenkinsci.plugins.artifactdeployer.ArtifactDeployerPublisher")
    @@ ("trigger-parameterized-builds" :>
        "hudson.plugins.parameterizedtrigger.BuildTrigger")
    @@ ("trigger" :> "hudson.tasks.BuildTrigger")
    @@ ("coverage" :> "hudson.plugins.cobertura.CoberturaPublisher")
    @@ ("ftp" :> "jenkins.plugins.publish__over__ftp.BapFtpPublisherPlugin")
    @@ ("junit" :> "hudson.tasks.junit.JUnitResultArchiver")
    @@ ("xunit" :> "xunit")
    @@ ("violations" :> "hudson.plugins.violations.ViolationsPublisher")
    @@ ("checkstyle" :> "hudson.plugins.checkstyle.CheckStylePublisher")
    @@ ("scp" :> "be.certipost.hudson.plugin.SCPRepositoryPublisher")
    @@ ("pipeline" :>
        "au.com.centrumsystems.hudson.plugin.buildpipeline.trigger.BuildPipelineTrigger")
    @@ ("email" :> "hudson.tasks.Mailer")
    @@ ("claim-build" :> "hudson.plugins.claim.ClaimPublisher")
    @@ ("email-ext" :> "hudson.plugins.emailext.ExtendedEmailPublisher")
    @@ ("fingerprint" :> "hudson.tasks.Fingerprinter")
    @@ ("aggregate-tests" :>
        "hudson.tasks.test.AggregatedTestResultPublisher")
    @@ ("cppcheck" :> "org.jenkinsci.plugins.cppcheck.CppcheckPublisher")
    @@ ("logparser" :> "hudson.plugins.logparser.LogParserPublisher")
    @@ ("copy-to-master" :>
        "com.michelin.cio.hudson.plugins.copytoslave.CopyToMasterNotifier")
    @@ ("jira" :> "hudson.plugins.jira.JiraIssueUpdater")
    @@ ("groovy-postbuild" :>
        "org.jvnet.hudson.plugins.groovypostbuild.GroovyPostbuildRecorder")
    @@ ("cifs" :> "jenkins.plugins.publish__over__cifs.CifsPublisherPlugin")

\* The pipeline action with the empty string as config.
NoOp(action) == action.name = "pipeline" /\ action.config = S("")

\* C7: every handler that completes has appended exactly one child, its
\* plugin element, to its parent, except pipeline with the empty string,
\* which appends none: after k successful actions 'publishers' has one
\* child per action that is not that no-op.
C7_OneChildPerHandler ==
    pc \in {"loop", "done"} =>
        /\ Len(Publishers.children) =
               Cardinality({k \in 1..(i - 1) : ~NoOp(Actions[k])})
        /\ (LastPos >= 1 /\ ~NoOp(Last)) =>
               LastElement.tag = PluginTag[Last.name]

C7_Witness ==
    /\ LastOk
    /\ Last.name = "xunit"
    /\ Len(supported_types(Last.config["types"])) = 2
    /\ Has(Last.config, "types")
    /\ Len(Publishers.children) = 1
    /\ Len(LastElement.children) = 4

\* C8: violations emits 15 entries under typeConfigs, one per known
\* system in the fixed order, each with the min, max and unstable the
\* config gives for that system, and 10, 999, 999 where it gives none.
C8_ViolationsEntries ==
    (Dispatched /\ Last.name = "violations") =>
        LET systems == <<"checkstyle", "codenarc", "cpd", "cpplint",
                         "csslint", "findbugs", "fxcop", "gendarme",
                         "jcreport", "jslint", "pep8", "pmd", "pylint",
                         "simian", "stylecop">>
            typeConfigs == FindAll(FindAll(LastElement, "config")[1],
                                   "typeConfigs")[1]
            entries == FindAll(typeConfigs, "entry")
            Given(n, key, default) ==
                IF Has(Last.config, systems[n])
                   /\ Has(Last.config[systems[n]], key)
                THEN ToString(Last.config[systems[n]][key].v)
                ELSE default
        IN  /\ LastOk
            /\ Len(entries) = 15
            /\ Len(typeConfigs.children) = 16
            /\ \A n \in 1..15 :
                 LET tc == entries[n].children[2]
                 IN  /\ entries[n].children[1] = Text("string", S(systems[n]))
                     /\ FindAll(tc, "type") = <<Text("type", S(systems[n]))>>
                     /\ FindAll(tc, "min") =
                            <<Text("min", S(Given(n, "min", "10")))>>
                     /\ FindAll(tc, "max") =
                            <<Text("max", S(Given(n, "max", "999")))>>
                     /\ FindAll(tc, "unstable") =
                            <<Text("unstable",
                                   S(Given(n, "unstable", "999")))>>

C8_Witness ==
    /\ LastOk
    /\ Last.name = "violations"
    /\ DOMAIN Last.config = {"pep8", "frobnicate"}
    /\ Last.config["pep8"] = [min |-> I(0), max |-> I(1), unstable |-> I(1),
                              pattern |-> S("**/pep8.txt")]
    /\ Last.config["frobnicate"] = [min |-> I(5)]

\* The chain outer / delegate / publishers / publisher / transfers /
\* transfer of ftp and cifs, each link the only one of its kind, and the
\* four fields of the transfer element.
PublishOverShape(outer, short) ==
    LET prefix == "jenkins.plugins.publish__over__" \o short
        publisher == IF short = "ftp" THEN ".BapFtpPublisher"
                     ELSE ".CifsPublisher"
        transfer == IF short = "ftp" THEN ".BapFtpTransfer"
                    ELSE ".CifsTransfer"
    IN  /\ outer.tag = prefix \o publisher \o "Plugin"
        /\ Len(FindAll(outer, "delegate")) = 1
        /\ Len(FindAll(FindAll(outer, "delegate")[1], "publishers")) = 1
        /\ Tags(FindAll(FindAll(outer, "delegate")[1],
                        "publishers")[1].children) = <<prefix \o publisher>>
        /\ Len(FindAll(FindAll(FindAll(outer, "delegate")[1],
                   "publishers")[1].children[1], "transfers")) = 1
        /\ Tags(FindAll(FindAll(FindAll(outer, "delegate")[1],
                   "publishers")[1].children[1], "transfers")[1].children)
               = <<prefix \o transfer>>
        /\ SubSeq(Tags(TransferNode(outer).children), 1, 4) =
               <<"remoteDirectory", "sourceFiles", "excludes",
                 "removePrefix">>
        /\ TransferNode(outer).children[1].text = Last.config["target"]
        /\ TransferNode(outer).children[2].text = Last.config["source"]

\* The children of the transfer element after its four fields.
TransferFlags(outer) ==
    SubSeq(TransferNode(outer).children, 5,
           Len(TransferNode(outer).children))

\* C9 as stated: for ftp and for cifs the tree is outer / delegate /
\* publishers / one publisher / transfers / one transfer, and the transfer
\* carries its four fields and four flag children with text 'false'.
C9_FourFlags ==
    (LastOk /\ Last.name \in {"ftp", "cifs"}) =>
        /\ PublishOverShape(LastElement, Last.name)
        /\ Len(TransferFlags(LastElement)) = 4
        /\ \A n \in 1..Len(TransferFlags(LastElement)) :
               TransferFlags(LastElement)[n].text = S("false")

\* C9 amended: the same tree, where the transfer carries its four fields
\* and the three flags base_publish_over gives it (remoteDirectorySDF,
\* flatten, cleanRemote), all 'false'; ftp adds a fourth, asciiMode,
\* 'false' too, and cifs adds none.
C9_ThreeFlagsAndAsciiMode ==
    (LastOk /\ Last.name \in {"ftp", "cifs"}) =>
        /\ PublishOverShape(LastElement, Last.name)
        /\ Tags(TransferFlags(LastElement)) =
               <<"remoteDirectorySDF", "flatten", "cleanRemote">>
               \o (IF Last.name = "ftp" THEN <<"asciiMode">> ELSE <<>>)
        /\ \A n \in 1..Len(TransferFlags(LastElement)) :
               TransferFlags(LastElement)[n].text = S("false")

C9_Witness ==
    /\ LastOk
    /\ Last.name = "cifs"
    /\ Len(TransferFlags(LastElement)) = 3
    /\ LastElement.children[1] = Text("consolePrefix", S("CIFS: "))

\* C10: base_publish_over always emits 'excludes' and 'removePrefix' in
\* the transfer element: with the empty string as text when the config has
\* no 'excludes' / 'remove-prefix', with the given value when it has.
C10_ExcludesAndRemovePrefix ==
    (LastOk /\ Last.name \in {"ftp", "cifs"}) =>
        /\ FindAll(TransferNode(LastElement), "excludes") =
               <<Text("excludes",
                      IF Has(Last.config, "excludes")
                      THEN Last.config["excludes"] ELSE S(""))>>
        /\ FindAll(TransferNode(LastElement), "removePrefix") =
               <<Text("removePrefix",
                      IF Has(Last.config, "remove-prefix")
                      THEN Last.config["remove-prefix"] ELSE S(""))>>

C10_Witness ==
    /\ LastOk
    /\ Last.name = "ftp"
    /\ Last.config = [site |-> S("s"), source |-> S("a/**"),
                      target |-> S("dest")]
    /\ TransferNode(LastElement).children[3] = Text("excludes", S(""))
    /\ TransferNode(LastElement).children[4] = Text("removePrefix", S(""))

\* C11: the action list holding one junit action whose config is
\* {results: r} compiles without failure to exactly one
\* JUnitResultArchiver element under 'publishers', whose children are
\* testResults with text r, keepLongStdio with text 'true' and
\* testDataPublishers, in that order.
C11_JunitRoundTrip ==
    (/\ pc # "start"
     /\ Len(Actions) = 1
     /\ Actions[1].name = "junit"
     /\ DOMAIN Actions[1].config = {"results"}) =>
        /\ pc # "raised"
        /\ pc = "done" =>
               /\ Tags(Publishers.children) =
                      <<"hudson.tasks.junit.JUnitResultArchiver">>
               /\ Publishers.children[1].children =
                      <<Text("testResults", Actions[1].config["results"]),
                        Text("keepLongStdio", S("true")),
                        Element("testDataPublishers")>>

C11_Witness ==
    /\ pc = "done"
    /\ Actions = <<Action("junit", [results |-> S("nosetests.xml")])>>
    /\ Publishers.children[1].children[1].text = S("nosetests.xml")

\* The tag of the block of a threshold category, and of the child of a
\* threshold name, as the plugin's schema names them.
CategoryTag ==
    [failed |-> "org.jenkinsci.plugins.xunit.threshold.FailedThreshold",
     skipped |-> "org.jenkinsci.plugins.xunit.threshold.SkippedThreshold"]

FieldTag ==
    [unstable |-> "unstableThreshold", unstablenew |-> "unstableNewThreshold",
     failure |-> "failureThreshold", failurenew |-> "failureNewThreshold"]

\* A threshold entry with one key, 'failed' or 'skipped'.
SingleKey(t) == Len(t) = 1 /\ t[1].k \in DOMAIN CategoryTag

\* The children of the 'thresholds' element of an xunit element.
ThresholdBlocks(xunit_el) == FindAll(xunit_el, "thresholds")[1].children

\* The scenario of C12: one 'failed' entry giving unstable and failure.
FailedScenario ==
    <<<<[k |-> "failed",
         v |-> <<[k |-> "unstable", v |-> I(0)],
                 [k |-> "failure", v |-> I(0)]>>]>>>>

\* C12 as stated: xunit given {thresholds: [{failed: {unstable: 0,
\* failure: 0}}]} and no other key completes and has produced one failed
\* block under 'thresholds' whose children are unstableThreshold and
\* failureThreshold and no others.
C12_ThresholdsAlone ==
    (/\ Dispatched
     /\ Last.name = "xunit"
     /\ DOMAIN Last.config = {"thresholds"}
     /\ Last.config["thresholds"] = FailedScenario) =>
        /\ LastOk
        /\ Tags(ThresholdBlocks(LastElement)) = <<CategoryTag["failed"]>>
        /\ Tags(ThresholdBlocks(LastElement)[1].children) =
               <<"unstableThreshold", "failureThreshold">>

\* C12 amended: xunit given 'thresholds' but no 'types' fails with
\* KeyError 'types', leaving an empty xunit element; given 'types' too, it
\* completes, and when every entry of 'thresholds' has the single key
\* 'failed' or 'skipped' the 'thresholds' element holds one block per
\* entry, in order, tagged by the entry's category, whose children are
\* exactly one per supplied threshold name, carrying the supplied value.
C12_ThresholdBlocks ==
    (Dispatched /\ Last.name = "xunit" /\ Has(Last.config, "thresholds")) =>
        LET list == Last.config["thresholds"]
            blocks == ThresholdBlocks(LastElement)
        IN  /\ ~Has(Last.config, "types") =>
                   /\ pc = "raised"
                   /\ err = [kind |-> "KeyError", msg |-> "types"]
                   /\ LastElement = Element("xunit")
            /\ Has(Last.config, "types") =>
                   /\ LastOk
                   /\ (\A n \in 1..Len(list) : SingleKey(list[n])) =>
                          /\ Len(blocks) = Len(list)
                          /\ \A n \in 1..Len(list) :
                                 LET items == list[n][1].v
                                 IN  /\ blocks[n].tag =
                                            CategoryTag[list[n][1].k]
                                     /\ blocks[n].children =
                                            [m \in 1..Len(items) |->
                                                Text(FieldTag[items[m].k],
                                                     items[m].v)]

C12_Witness ==
    /\ LastOk
    /\ Last.name = "xunit"
    /\ DOMAIN Last.config = {"types", "thresholds"}
    /\ Last.config["thresholds"] = FailedScenario
    /\ Tags(ThresholdBlocks(LastElement)[1].children) =
           <<"unstableThreshold", "failureThreshold">>

\* The 13 framework names of the lookup table.
FrameworkNames ==
    {"aunit", "boosttest", "checktype", "cpptest", "cppunit", "fpcunit",
     "junit", "mstest", "nunit", "phpunit", "tusar", "unittest", "valgrind"}

\* The entries of a 'types' list whose framework name is in the table.
Recognized(types) ==
    SelectSeq(types, LAMBDA entry : entry[1].k \in FrameworkNames)

\* C13: xunit with any 'types' list completes; its 'types' children are
\* one per entry whose framework name is among the 13 of the lookup table,
\* in list order, each holding the one framework block tagged as the table
\* says and carrying that entry's pattern; an entry with another name
\* leaves no block.
C13_UnrecognizedTypeSkipped ==
    (Dispatched /\ Last.name = "xunit" /\ Has(Last.config, "types")) =>
        LET recognized == Recognized(Last.config["types"])
            blocks == FindAll(LastElement, "types")
        IN  /\ LastOk
            /\ FrameworkNames = DOMAIN types_to_plugin_types
            /\ Len(blocks) = Len(recognized)
            /\ SubSeq(LastElement.children, 1, Len(blocks)) = blocks
            /\ \A n \in 1..Len(blocks) :
                   /\ Tags(blocks[n].children) =
                          <<types_to_plugin_types[recognized[n][1].k]>>
                   /\ blocks[n].children[1].children[1] =
                          Text("pattern",
                               Get(recognized[n][1].v, "pattern", S("")))

C13_Witness ==
    /\ LastOk
    /\ Last.name = "xunit"
    /\ Has(Last.config, "types")
    /\ Len(Last.config["types"]) = 2
    /\ OKeys(Last.config["types"][1]) = <<"cppUnit">>
    /\ OKeys(Last.config["types"][2]) = <<"phpunit">>
    /\ Tags(LastElement.children) = <<"types", "thresholds", "thresholdMode">>
    /\ LastElement.children[1].children[1].tag = "PHPUnitJunitHudsonTestType"

\* The entries of a 'thresholds' list that have a 'failed' or a 'skipped'
\* key.
Kept(list) ==
    SelectSeq(list, LAMBDA t : \E n \in 1..Len(t) :
                                   t[n].k \in {"failed", "skipped"})

\* C14: xunit completes whatever the keys of the entries of 'thresholds';
\* an entry with neither a 'failed' nor a 'skipped' key leaves no block,
\* every other entry leaves one, in list order (tagged by its category
\* when that is its only key), and the xunit element still ends with
\* 'thresholds' and 'thresholdMode'.
C14_UnrecognizedThresholdDropped ==
    (/\ Dispatched
     /\ Last.name = "xunit"
     /\ Has(Last.config, "types")
     /\ Has(Last.config, "thresholds")) =>
        LET kept == Kept(Last.config["thresholds"])
            blocks == ThresholdBlocks(LastElement)
            last == Len(LastElement.children)
        IN  /\ LastOk
            /\ Len(blocks) = Len(kept)
            /\ \A n \in 1..Len(kept) :
                   SingleKey(kept[n]) =>
                       blocks[n].tag = CategoryTag[kept[n][1].k]
            /\ LastElement.children[last - 1].tag = "thresholds"
            /\ LastElement.children[last] \in
                   {Text("thresholdMode", S("1")),
                    Text("thresholdMode", S("2"))}

C14_Witness ==
    /\ LastOk
    /\ Last.name = "xunit"
    /\ Has(Last.config, "thresholds")
    /\ Len(Last.config["thresholds"]) = 2
    /\ OKeys(Last.config["thresholds"][1]) = <<"passed">>
    /\ OKeys(Last.config["thresholds"][2]) = <<"failed">>
    /\ Tags(ThresholdBlocks(LastElement)) = <<CategoryTag["failed"]>>
    /\ LastElement.children[3] = Text("thresholdMode", S("1"))

\* An element and its descendants in document order, each with its depth:
\* two trees are equal exactly when these sequences are.
RECURSIVE Flatten(_, _)
Flatten(e, depth) ==
    LET RECURSIVE All(_)
        All(children) ==
            IF children = <<>> THEN <<>>
            ELSE Flatten(Head(children), depth + 1) \o All(Tail(children))
    IN  <<[tag |-> e.tag, attrib |-> e.attrib, text |-> e.text,
           depth |-> depth]>> \o All(e.children)

\* The optional boolean fields: the handler, where in its config the key
\* sits ("config": the config itself; "files" / "types": each entry of
\* that list; "severity" / "display": that mapping of cppcheck), the key,
\* the element it maps to and the default.
Field(name, at, key, tag, default) ==
    [name |-> name, at |-> at, key |-> key, tag |-> tag,
     default |-> default]

BooleanFields ==
    {Field("archive", "config", "latest_only", "latestOnly", FALSE),
     Field("scp", "files", "keep-hierarchy", "keepHierarchy", FALSE),
     Field("scp", "files", "copy-console", "copyConsoleLog", FALSE),
     Field("scp", "files", "copy-after-failure", "copyAfterFailure", FALSE),
     Field("email", "config", "send-to-individuals", "sendToIndividuals",
           FALSE),
     Field("fingerprint", "config", "record-artifacts",
           "recordBuildArtifacts", FALSE),
     Field("aggregate-tests", "config", "include-failed-builds",
           "includeFailedBuilds", FALSE),
     Field("logparser", "config", "unstable-on-warning", "unstableOnWarning",
           FALSE),
     Field("logparser", "config", "fail-on-error", "failBuildOnError", FALSE),
     Field("checkstyle", "config", "canRunOnFailed", "canRunOnFailed", FALSE),
     Field("checkstyle", "config", "shouldDetectModules",
           "shouldDetectModules", FALSE),
     Field("xunit", "types", "requireupdate", "failIfNotNew", TRUE),
     Field("xunit", "types", "deleteoutput", "deleteOutputFiles", TRUE),
     Field("xunit", "types", "stoponerror", "stopProcessingIfError", TRUE),
     Field("cppcheck", "severity", "error", "severityError", TRUE),
     Field("cppcheck", "severity", "warning", "severityWarning", TRUE),
     Field("cppcheck", "severity", "style", "severityStyle", TRUE),
     Field("cppcheck", "severity", "performance", "severityPerformance",
           TRUE),
     Field("cppcheck", "severity", "information", "severityInformation",
           TRUE),
     Field("cppcheck", "display", "sum", "displayAllErrors", TRUE),
     Field("cppcheck", "display", "error", "displayErrorSeverity", FALSE),
     Field("cppcheck", "display", "warning", "displayWarningSeverity", FALSE),
     Field("cppcheck", "display", "style", "displayStyleSeverity", FALSE),
     Field("cppcheck", "display", "performance",
           "displayPerformanceSeverity", FALSE),
     Field("cppcheck", "display", "information",
           "displayInformationSeverity", FALSE)}

\* The mapping of a config that holds the key of field f; k is the
\* position in the list for "files" and "types".
Holder(config, f, k) ==
    CASE f.at = "config" -> config
      [] f.at = "files" -> config["files"][k]
      [] f.at = "types" -> config["types"][k][1].v
      [] f.at = "severity" ->
             Get(Get(config, "thresholds", EmptyDict), "severity", EmptyDict)
      [] f.at = "display" ->
             Get(Get(config, "graph", EmptyDict), "display", EmptyDict)

\* The positions of a config where field f maps to an element.
Positions(config, f) ==
    CASE f.at = "files" -> 1..Len(config["files"])
      [] f.at = "types" ->
             {k \in 1..Len(config["types"]) :
                 config["types"][k][1].k \in FrameworkNames}
      [] OTHER -> {0}

\* The config with the key of field f supplied as the boolean b.
Supply(config, f, k, b) ==
    LET holder == (f.key :> B(b)) @@ Holder(config, f, k)
    IN  CASE f.at = "config" -> holder
          [] f.at = "files" -> [config EXCEPT !["files"][k] = holder]
          [] f.at = "types" -> [config EXCEPT !["types"][k][1].v = holder]
          [] f.at = "severity" ->
                 ("thresholds" :>
                     (("severity" :> holder)
                      @@ Get(config, "thresholds", EmptyDict))) @@ config
          [] f.at = "display" ->
                 ("graph" :>
                     (("display" :> holder)
                      @@ Get(config, "graph", EmptyDict))) @@ config

\* The text of a Python boolean.
BooleanText(b) == IF b THEN S("true") ELSE S("false")

\* C15: when a handler has completed on a config that omits one of the
\* optional boolean fields, the element of that field has the default
\* text; and the same config with the opposite boolean supplied compiles
\* to a tree that differs from it in the text of that one element only,
\* which is then the opposite text.
C15_BooleanDefaultsAndFrame ==
    \A f \in BooleanFields :
        (LastOk /\ Last.name = f.name) =>
            \A k \in Positions(Last.config, f) :
                ~Has(Holder(Last.config, f, k), f.key) =>
                    LET flipped ==
                            Alone(Action(f.name,
                                Supply(Last.config, f, k, ~f.default)))
                        before == Flatten(LastElement, 0)
                        after == Flatten(flipped.parent.children[1], 0)
                        changed == {n \in 1..Len(before) :
                                       before[n] # after[n]}
                    IN  /\ flipped.err = NoError
                        /\ Len(flipped.parent.children) = 1
                        /\ Len(after) = Len(before)
                        /\ Cardinality(changed) = 1
                        /\ \A n \in changed :
                               /\ before[n] =
                                      [tag |-> f.tag, attrib |-> EmptyDict,
                                       text |-> BooleanText(f.default),
                                       depth |-> before[n].depth]
                               /\ after[n] =
                                      [before[n] EXCEPT
                                          !.text = BooleanText(~f.default)]

C15_Witness ==
    /\ LastOk
    /\ Last.name = "cppcheck"
    /\ Last.config = [pattern |-> S("**/cppcheck.xml"),
                      graph |-> [display |-> [sum |-> B(FALSE),
                                              error |-> B(TRUE)]]]
    /\ FindAll(LastElement.children[1].children[3], "severityError") =
           <<Text("severityError", S("true"))>>
    /\ FindAll(LastElement.children[1].children[4],
               "displayWarningSeverity") =
           <<Text("displayWarningSeverity", S("false"))>>

\* C16: the email handler writes 'dontNotifyEveryUnstableBuild' as the
\* negation of 'notify-every-unstable-build': 'false' when the option is
\* true or absent, 'true' when it is false; 'sendToIndividuals' is
\* 'send-to-individuals' itself, 'false' when the option is absent.
C16_EmailNotifyReversed ==
    (LastOk /\ Last.name = "email") =>
        LET notify == "notify-every-unstable-build"
            individuals == "send-to-individuals"
        IN  /\ FindAll(LastElement, "dontNotifyEveryUnstableBuild") =
                   <<Text("dontNotifyEveryUnstableBuild",
                          IF Has(Last.config, notify)
                             /\ Last.config[notify] = B(FALSE)
                          THEN S("true") ELSE S("false"))>>
            /\ FindAll(LastElement, "sendToIndividuals") =
                   <<Text("sendToIndividuals",
                          IF Has(Last.config, individuals)
                             /\ Last.config[individuals] = B(TRUE)
                          THEN S("true") ELSE S("false"))>>

C16_Witness ==
    /\ LastOk
    /\ Last.name = "email"
    /\ Last.config = ("recipients" :> S("breakage@example.com"))
                      @@ ("notify-every-unstable-build" :> B(FALSE))
    /\ LastElement.children[2] =
           Text("dontNotifyEveryUnstableBuild", S("true"))
    /\ LastElement.children[3] = Text("sendToIndividuals", S("false"))

\* C17: trigger-parameterized-builds, when it completes, has emitted under
\* its 'configs' exactly one BuildTriggerConfig per project definition,
\* the k-th with 'projects' holding the project of the k-th definition;
\* scp, when it completes, has emitted under 'entries' exactly one Entry
\* per element of 'files', the k-th with 'filePath' holding the target of
\* the k-th element.
C17_OneSubtreePerEntry ==
    /\ (LastOk /\ Last.name = "trigger-parameterized-builds") =>
           LET configs == FindAll(LastElement, "configs")[1].children
           IN  /\ Len(configs) = Len(Last.config)
               /\ \A k \in 1..Len(configs) :
                      /\ configs[k].tag =
                             "hudson.plugins.parameterizedtrigger.BuildTriggerConfig"
                      /\ FindAll(configs[k], "projects") =
                             <<Text("projects", Last.config[k]["project"])>>
    /\ (LastOk /\ Last.name = "scp") =>
           LET entries == FindAll(LastElement, "entries")[1].children
               files == Last.config["files"]
           IN  /\ Len(entries) = Len(files)
               /\ \A k \in 1..Len(entries) :
                      /\ entries[k].tag = "be.certipost.hudson.plugin.Entry"
                      /\ FindAll(entries[k], "filePath") =
                             <<Text("filePath", files[k]["target"])>>

C17_Witness ==
    /\ LastOk
    /\ Last.name = "trigger-parameterized-builds"
    /\ Len(Last.config) = 2
    /\ Len(LastElement.children[1].children) = 2
    /\ LastElement.children[1].children[1].children[2] =
           Text("projects", S("yet_another_job"))
    /\ LastElement.children[1].children[2].children[2] =
           Text("projects", S("other_job"))

\* C18: a handler call, whether it returns or raises, leaves the job data
\* (and so the config it was passed) as it was, and only appends to the
\* element it was given: 'publishers' keeps its tag, attributes and text,
\* the children it had before the call are the same, at the same
\* positions, and the other children of the project element are untouched.
C18_HandlerFrame ==
    [][pc = "loop" =>
          /\ data' = data
          /\ Len(xml_parent'.children) = Len(xml_parent.children)
          /\ \A k \in 1..(Len(xml_parent.children) - 1) :
                 xml_parent'.children[k] = xml_parent.children[k]
          /\ [Publishers' EXCEPT !.children = <<>>] =
                 [Publishers EXCEPT !.children = <<>>]
          /\ Len(Publishers'.children) >= Len(Publishers.children)
          /\ SubSeq(Publishers'.children, 1, Len(Publishers.children)) =
                 Publishers.children]_vars

C18_Witness ==
    /\ pc = "raised"
    /\ i = 2
    /\ Actions[1].name = "archive"
    /\ Actions[2].name = "junit"
    /\ Tags(Publishers.children) =
           <<"hudson.tasks.ArtifactArchiver",
             "hudson.tasks.junit.JUnitResultArchiver">>
    /\ Publishers.children[1] = Alone(Actions[1]).parent.children[1]

\* C19: deploy, configured with the documented arguments 'files' and
\* 'remote', completes with one ArtifactDeployerEntry whose 'includes'
\* holds the value of 'files' and whose 'remote' holds the value of
\* 'remote'.
C19_DeployDocumentedArguments ==
    (/\ Dispatched
     /\ Last.name = "deploy"
     /\ DOMAIN Last.config = {"files", "remote"}) =>
        /\ LastOk
        /\ LET entries == FindAll(LastElement, "entries")[1].children
           IN  /\ Tags(entries) =
                      <<"org.jenkinsci.plugins.artifactdeployer.ArtifactDeployerEntry">>
               /\ FindAll(entries[1], "includes") =
                      <<Text("includes", Last.config["files"])>>
               /\ FindAll(entries[1], "remote") =
                      <<Text("remote", Last.config["remote"])>>

\* C20: scp, given an upload entry that sets 'copy-console' to true and
\* has no 'target', completes with an Entry whose copyConsoleLog is
\* 'true'.
C20_ScpConsoleWithoutTarget ==
    (/\ Dispatched
     /\ Last.name = "scp"
     /\ DOMAIN Last.config = {"site", "files"}
     /\ Last.config["files"] = <<"copy-console" :> B(TRUE)>>) =>
        /\ LastOk
        /\ LET entries == FindAll(LastElement, "entries")[1].children
           IN  /\ Tags(entries) = <<"be.certipost.hudson.plugin.Entry">>
               /\ FindAll(entries[1], "copyConsoleLog") =
                      <<Text("copyConsoleLog", S("true"))>>

\* The handlers C21 names.
FailingHandlers ==
    {"archive", "junit", "trigger", "email", "cppcheck", "scp", "ftp",
     "cifs"}

\* C21 as stated: when one of those handlers has failed, the children of
\* its parent are the ones the parent had before the call.
C21_FailureAppendsNothing ==
    (pc = "raised" /\ Last.name \in FailingHandlers) =>
        Publishers.children = ProducedUpTo(Actions, i - 1)

\* C21 amended: when one of those handlers has failed, the children the
\* parent had before the call are unchanged, and after them the parent
\* holds the partially built top-level element of the handler, which was
\* created before the failing lookup or check; only scp failing on a
\* missing 'site', which it looks up before creating anything, has
\* appended nothing.
C21_FailureLeavesPartialElement ==
    (pc = "raised" /\ Last.name \in FailingHandlers) =>
        LET before == ProducedUpTo(Actions, i - 1)
        IN  /\ SubSeq(Publishers.children, 1, Len(before)) = before
            /\ IF Last.name = "scp" /\ ~Has(Last.config, "site")
               THEN Len(Publishers.children) = Len(before)
               ELSE /\ Len(Publishers.children) = Len(before) + 1
                    /\ LastElement.tag = PluginTag[Last.name]

C21_Witness ==
    /\ pc = "raised"
    /\ Last.name = "trigger"
    /\ i = 2
    /\ Len(Publishers.children) = 2
    /\ LastElement.tag = "hudson.tasks.BuildTrigger"
    /\ err.kind = "AttributeError"

\* The number of 'failed' and 'skipped' keys over the entries of a
\* 'thresholds' list.
RECURSIVE CategoryKeys(_)
CategoryKeys(list) ==
    IF list = <<>> THEN 0
    ELSE Cardinality({n \in 1..Len(Head(list)) :
                         Head(list)[n].k \in DOMAIN CategoryTag})
         + CategoryKeys(Tail(list))

\* C22: xunit, whatever the keys of the entries of 'thresholds', emits
\* under 'thresholds' only FailedThreshold and SkippedThreshold elements,
\* one for every 'failed' and every 'skipped' key of every entry, so two
\* for an entry that has both.
C22_OnlyFailedAndSkippedBlocks ==
    (LastOk /\ Last.name = "xunit" /\ Has(Last.config, "thresholds")) =>
        LET blocks == ThresholdBlocks(LastElement)
        IN  /\ \A n \in 1..Len(blocks) :
                   blocks[n].tag \in {CategoryTag["failed"],
                                      CategoryTag["skipped"]}
            /\ Len(blocks) = CategoryKeys(Last.config["thresholds"])

\* C23: in trigger-parameterized-builds the inner 'configs' element of
\* every project definition has the attribute class =
\* 'java.util.Collections$EmptyList' exactly when it has no children.
C23_EmptyListWhenNoParameters ==
    (LastOk /\ Last.name = "trigger-parameterized-builds") =>
        LET configs == FindAll(LastElement, "configs")[1].children
        IN  \A k \in 1..Len(configs) :
                LET inner == FindAll(configs[k], "configs")[1]
                IN  (inner.attrib =
                        ("class" :> S("java.util.Collections$EmptyList")))
                    <=> (inner.children = <<>>)

\* The numeric options of checkstyle: the mapping of the config that holds
\* each, its key, and the element it is written to.
NumericOptions ==
    {[at |-> "config", key |-> "healthy", tag |-> "healthy"],
     [at |-> "config", key |-> "unHealthy", tag |-> "unHealthy"]}
    \cup {[at |-> kind, key |-> "total" \o level,
           tag |-> kind \o "Total" \o level] :
          kind \in {"unstable", "failed"},
          level \in {"All", "High", "Normal", "Low"}}

\* C24: checkstyle writes each numeric option that the config supplies as
\* an element whose text is the value as a string, 0 included, and each
\* one the config lacks as an element without text.
C24_ZeroIsNotAbsent ==
    (LastOk /\ Last.name = "checkstyle") =>
        \A o \in NumericOptions :
            LET holder ==
                    IF o.at = "config" THEN Last.config
                    ELSE Get(Get(Last.config, "thresholds", EmptyDict),
                             o.at, EmptyDict)
                parent ==
                    IF o.at = "config" THEN LastElement
                    ELSE FindAll(LastElement, "thresholds")[1]
            IN  FindAll(parent, o.tag) =
                    <<IF Has(holder, o.key)
                      THEN Text(o.tag, S(ToString(holder[o.key].v)))
                      ELSE Element(o.tag)>>

====
